---- MODULE Spec2Model ----
(***************************************************************************)
(* The bookstore checkout pipeline of src/bookstore.js (the final,         *)
(* "Phase 4" version of the module, lines 310-866): catalog search, the    *)
(* shared shopping cart, pricing, the payment simulator, the inventory     *)
(* commit, the email log and the two purchase orchestrators.               *)
(*                                                                         *)
(* Conventions.  JavaScript strings on which the code does character work  *)
(* (toLowerCase, toUpperCase, includes) are sequences of one-character     *)
(* strings; strings that are only compared or used as object keys are TLA+ *)
(* strings.  Money is an integer number of cents; toFixed2 rounds an exact *)
(* quotient of cents.  Each public function is one atomic action (the      *)
(* module is synchronous JavaScript); the value it returns or the error it *)
(* throws is recorded in the variable last.                                *)
(***************************************************************************)
EXTENDS Integers, Sequences, FiniteSets, TLC

VARIABLES
    stock,          \* bookDatabase[i].stock, by book id
    shoppingCart,   \* let shoppingCart: book id -> [book, quantity]
    emailLog,       \* let emailLog: sequence of email records
    now,            \* the value Date.now() returns
    committed,      \* history: by book id, the copies asked for by the purchases
                    \* and the updateInventory calls that succeeded since the
                    \* stock was last seeded
    last            \* the last call: its name, what it returned or threw, the
                    \* shared state it started from and, for addToCart and
                    \* updateInventory, its arguments

vars == <<stock, shoppingCart, emailLog, now, committed, last>>

----------------------------------------------------------------------------
(* Bounds of the model *)

\* largest quantity a caller passes
MaxQty == 3
\* largest clock value
MaxClock == 1
\* largest number of records the email log is let grow to
MaxEmails == 1

----------------------------------------------------------------------------
(* JavaScript values and string helpers *)

JsNull == [t |-> "null", v |-> <<>>]
JsNumber == [t |-> "number", v |-> <<>>]
JsStr(chars) == [t |-> "string", v |-> chars]

\* !x for x null, a number other than 0, or a string
Falsy(x) == x.t = "null" \/ (x.t = "string" /\ x.v = <<>>)

\* an object value, v its own properties
JsObject(props) == [t |-> "object", v |-> props]

\* Amounts are numbers of cents.  Two JS values that turn up where an amount
\* is expected stand outside the amounts: NaN and undefined.
NaN == -999999
undefined == -999998
\* x <= 0 for an amount or NaN (every comparison with NaN is false)
LeqZero(x) == x # NaN /\ x <= 0

UpperChars == <<"A","B","C","D","E","F","G","H","I","J","K","L","M","N","O","P","Q","R","S","T","U","V","W","X","Y","Z">>
LowerChars == <<"a","b","c","d","e","f","g","h","i","j","k","l","m","n","o","p","q","r","s","t","u","v","w","x","y","z">>

lowerChar(c) == IF \E k \in 1..26 : UpperChars[k] = c
                THEN LowerChars[CHOOSE k \in 1..26 : UpperChars[k] = c]
                ELSE c
upperChar(c) == IF \E k \in 1..26 : LowerChars[k] = c
                THEN UpperChars[CHOOSE k \in 1..26 : LowerChars[k] = c]
                ELSE c

RECURSIVE toLowerCase(_)
toLowerCase(s) == IF s = <<>> THEN <<>> ELSE <<lowerChar(Head(s))>> \o toLowerCase(Tail(s))

RECURSIVE toUpperCase(_)
toUpperCase(s) == IF s = <<>> THEN <<>> ELSE <<upperChar(Head(s))>> \o toUpperCase(Tail(s))

\* String.prototype.includes
includes(s, sub) ==
    \E i \in 0..(Len(s) - Len(sub)) : \A j \in 1..Len(sub) : s[i + j] = sub[j]

\* Number.prototype.toFixed(2) followed by parseFloat, of the quotient
\* num/den cents (den > 0): the nearest whole number of cents, a tie going up
toFixed2(num, den) == (2 * num + den) \div (2 * den)

----------------------------------------------------------------------------
(* The catalog *)

bookDatabase == <<
  [id |-> 1,
   title |-> <<"T","h","e"," ","G","r","e","a","t"," ","G","a","t","s","b","y">>,
   author |-> <<"F","."," ","S","c","o","t","t"," ","F","i","t","z","g","e","r","a","l","d">>,
   price |-> 1299, stock |-> 5],
  [id |-> 2,
   title |-> <<"T","o"," ","K","i","l","l"," ","a"," ","M","o","c","k","i","n","g","b","i","r","d">>,
   author |-> <<"H","a","r","p","e","r"," ","L","e","e">>,
   price |-> 1499, stock |-> 3],
  [id |-> 3,
   title |-> <<"1","9","8","4">>,
   author |-> <<"G","e","o","r","g","e"," ","O","r","w","e","l","l">>,
   price |-> 1399, stock |-> 0],
  [id |-> 4,
   title |-> <<"P","r","i","d","e"," ","a","n","d"," ","P","r","e","j","u","d","i","c","e">>,
   author |-> <<"J","a","n","e"," ","A","u","s","t","e","n">>,
   price |-> 1199, stock |-> 7],
  [id |-> 5,
   title |-> <<"T","h","e"," ","C","a","t","c","h","e","r"," ","i","n"," ","t","h","e"," ","R","y","e">>,
   author |-> <<"J",".","D","."," ","S","a","l","i","n","g","e","r">>,
   price |-> 1249, stock |-> 4],
  [id |-> 6,
   title |-> <<"B","r","a","v","e"," ","N","e","w"," ","W","o","r","l","d">>,
   author |-> <<"A","l","d","o","u","s"," ","H","u","x","l","e","y">>,
   price |-> 1349, stock |-> 2] >>

BookIds == {bookDatabase[i].id : i \in 1..Len(bookDatabase)}

\* bookDatabase.find((b) => b.id === bookId), for a bookId the catalog holds
find(bookId) == bookDatabase[CHOOSE i \in 1..Len(bookDatabase) : bookDatabase[i].id = bookId]

\* the stock every book is seeded with, and resetInventory restores
SeedStock == [id \in BookIds |-> find(id).stock]

\* book.title.toLowerCase() and book.author.toLowerCase() of every book
RECURSIVE lowerBooks(_)
lowerBooks(books) ==
    IF books = <<>> THEN <<>>
    ELSE <<[id |-> Head(books).id,
            title |-> toLowerCase(Head(books).title),
            author |-> toLowerCase(Head(books).author)]>> \o lowerBooks(Tail(books))

lowerCatalog == lowerBooks(bookDatabase)

\* the filter of searchBooks(query): the ids of the matching books, in
\* catalog order
matchingBooks(query) ==
    IF Falsy(query) \/ query.t # "string"
    THEN <<>>
    ELSE LET lowerQuery == toLowerCase(query.v)
             matches(book) == \/ includes(book.title, lowerQuery)
                              \/ includes(book.author, lowerQuery)
             hits == SelectSeq(lowerCatalog, matches)
         IN  [i \in 1..Len(hits) |-> hits[i].id]

\* The queries callers pass: "ORWELL" matches one author (book 3), "the" two
\* titles (books 1 and 5), "zzz" nothing; the empty string and a number are
\* answered with no results.
QueryArgs == {JsStr(<<"O","R","W","E","L","L">>), JsStr(<<"t","h","e">>), JsStr(<<"z","z","z">>),
              JsStr(<<>>), JsNumber}

\* searchBooks(query), for the queries of QueryArgs: the filter is worked out
\* once per query
searchIndex == {<<q, matchingBooks(q)>> : q \in QueryArgs}
searchBooks(query) == (CHOOSE e \in searchIndex : e[1] = query)[2]

----------------------------------------------------------------------------
(* The cart *)

EmptyCart == [k \in {} |-> 0]

\* the object cart with property key set to line
PutLine(cart, key, line) ==
    [k \in DOMAIN cart \cup {key} |-> IF k = key THEN line ELSE cart[k]]

\* A call's outcome: threw says whether it threw, error is the message of
\* the Error thrown, ret the value returned.
Threw(error) == [threw |-> TRUE, error |-> error, ret |-> <<>>]
Returned(ret) == [threw |-> FALSE, error |-> <<>>, ret |-> ret]

\* JSON.parse(JSON.stringify(cart)): a fresh cart with the same keys, every
\* line rebuilt from the fields that survive serialisation (numbers stay
\* numbers; the cart holds no undefined, NaN or function valued field)
jsonClone(cart) ==
    [k \in DOMAIN cart |->
        [book |-> [id |-> cart[k].book.id,
                   price |-> cart[k].book.price,
                   stock |-> cart[k].book.stock],
         quantity |-> cart[k].quantity]]

\* handedOut returning a shallow copy ({...shoppingCart}): a new cart object
\* whose lines are the line objects of the shared cart
handedOut_ShallowCopy(cart) == [value |-> cart, shares |-> "lines"]

\* the value addToCart and getCart hand to their caller, and what it shares
\* with the shared cart: "object" when it is the cart object itself, "lines"
\* when it is another object holding the same line objects, "nothing" when
\* every object in it is new.  JSON.parse builds new objects throughout.
handedOut(cart) == [value |-> jsonClone(cart), shares |-> "nothing"]

\* addToCart with the stock check of the first version (lines 79-81): the
\* quantity of this call alone is compared with the stock
addToCart_PerCallCheck(cart, stk, bookId, quantity) ==
    IF bookId \notin BookIds
    THEN [out |-> Threw(<<"Book with ID", bookId, "not found">>), cart |-> cart]
    ELSE IF quantity <= 0
    THEN [out |-> Threw(<<"Quantity must be greater than 0">>), cart |-> cart]
    ELSE IF quantity > stk[bookId]
    THEN [out |-> Threw(<<"Only", stk[bookId], "copies available">>), cart |-> cart]
    ELSE LET line == IF bookId \in DOMAIN cart
                     THEN [cart[bookId] EXCEPT !.quantity = @ + quantity]
                     ELSE [book |-> [id |-> bookId,
                                     price |-> find(bookId).price,
                                     stock |-> stk[bookId]],
                           quantity |-> quantity]
             newCart == PutLine(cart, bookId, line)
         IN  [out |-> Returned(handedOut(newCart).value), cart |-> newCart,
                       shares |-> handedOut(newCart).shares]

\* addToCart with the quantity checked before the book is looked up
addToCart_QuantityFirst(cart, stk, bookId, quantity) ==
    IF quantity <= 0
    THEN [out |-> Threw(<<"Quantity must be greater than 0">>), cart |-> cart]
    ELSE IF bookId \notin BookIds
    THEN [out |-> Threw(<<"Book with ID", bookId, "not found">>), cart |-> cart]
    ELSE LET currentQuantity == IF bookId \in DOMAIN cart THEN cart[bookId].quantity ELSE 0
         IN  IF currentQuantity + quantity > stk[bookId]
             THEN [out |-> Threw(<<"Only", stk[bookId], "copies available">>), cart |-> cart]
             ELSE LET line == IF bookId \in DOMAIN cart
                              THEN [cart[bookId] EXCEPT !.quantity = @ + quantity]
                              ELSE [book |-> [id |-> bookId,
                                              price |-> find(bookId).price,
                                              stock |-> stk[bookId]],
                                    quantity |-> quantity]
                      newCart == PutLine(cart, bookId, line)
                  IN  [out |-> Returned(handedOut(newCart).value), cart |-> newCart,
                       shares |-> handedOut(newCart).shares]

\* addToCart with the total compared with the stock the catalog was seeded
\* with instead of the live stock
addToCart_SeedStock(cart, stk, bookId, quantity) ==
    IF bookId \notin BookIds
    THEN [out |-> Threw(<<"Book with ID", bookId, "not found">>), cart |-> cart]
    ELSE IF quantity <= 0
    THEN [out |-> Threw(<<"Quantity must be greater than 0">>), cart |-> cart]
    ELSE LET currentQuantity == IF bookId \in DOMAIN cart THEN cart[bookId].quantity ELSE 0
             totalQuantity == currentQuantity + quantity
         IN  IF totalQuantity > find(bookId).stock
             THEN [out |-> Threw(<<"Only", stk[bookId], "copies available">>), cart |-> cart]
             ELSE LET line == IF bookId \in DOMAIN cart
                              THEN [cart[bookId] EXCEPT !.quantity = @ + quantity]
                              ELSE [book |-> [id |-> bookId,
                                              price |-> find(bookId).price,
                                              stock |-> stk[bookId]],
                                    quantity |-> quantity]
                      newCart == PutLine(cart, bookId, line)
                  IN  [out |-> Returned(handedOut(newCart).value), cart |-> newCart,
                       shares |-> handedOut(newCart).shares]

\* addToCart writing the line before it compares the total quantity with the
\* stock: a call turned down for lack of stock leaves the line in the cart
addToCart_WriteBeforeCheck(cart, stk, bookId, quantity) ==
    IF bookId \notin BookIds
    THEN [out |-> Threw(<<"Book with ID", bookId, "not found">>), cart |-> cart]
    ELSE IF quantity <= 0
    THEN [out |-> Threw(<<"Quantity must be greater than 0">>), cart |-> cart]
    ELSE LET currentQuantity == IF bookId \in DOMAIN cart THEN cart[bookId].quantity ELSE 0
             totalQuantity == currentQuantity + quantity
             line == IF bookId \in DOMAIN cart
                     THEN [cart[bookId] EXCEPT !.quantity = @ + quantity]
                     ELSE [book |-> [id |-> bookId,
                                     price |-> find(bookId).price,
                                     stock |-> stk[bookId]],
                           quantity |-> quantity]
             newCart == PutLine(cart, bookId, line)
         IN  IF totalQuantity > stk[bookId]
             THEN [out |-> Threw(<<"Only", stk[bookId], "copies available">>),
                   cart |-> newCart]
             ELSE [out |-> Returned(handedOut(newCart).value), cart |-> newCart,
                   shares |-> handedOut(newCart).shares]

\* addToCart(bookId, quantity) run on the cart `cart` with the catalog stock
\* `stk`: the outcome and the cart it leaves
addToCart(cart, stk, bookId, quantity) ==
    IF bookId \notin BookIds
    THEN [out |-> Threw(<<"Book with ID", bookId, "not found">>), cart |-> cart]
    ELSE IF quantity <= 0
    THEN [out |-> Threw(<<"Quantity must be greater than 0">>), cart |-> cart]
    ELSE LET currentQuantity == IF bookId \in DOMAIN cart THEN cart[bookId].quantity ELSE 0
             totalQuantity == currentQuantity + quantity
         IN  IF totalQuantity > stk[bookId]
             THEN [out |-> Threw(<<"Only", stk[bookId], "copies available">>), cart |-> cart]
             ELSE LET line == IF bookId \in DOMAIN cart
                              THEN [cart[bookId] EXCEPT !.quantity = @ + quantity]
                              ELSE [book |-> [id |-> bookId,
                                              price |-> find(bookId).price,
                                              stock |-> stk[bookId]],
                                    quantity |-> quantity]
                      newCart == PutLine(cart, bookId, line)
                  IN  [out |-> Returned(handedOut(newCart).value), cart |-> newCart,
                       shares |-> handedOut(newCart).shares]

\* The subtotals for which subtotal + subtotal * 0.1, computed in binary
\* floating point, lies just below a value ending in half a cent whatever
\* the lines that add up to the subtotal: toFixed(2) rounds it down.
totalBelowTie == {6145, 6395, 6645, 6895, 7145, 19685, 19785, 19885}

\* The carts of catalog items within the seeded stock, as the quantities of
\* books 1, 2, 4, 5 and 6, for which the same happens while other carts of
\* the same subtotal, summed along other lines, land on the tie or above it.
totalBelowTieCarts == {
    <<0, 3, 6, 4, 2>>, <<1, 1, 7, 4, 2>>, <<1, 2, 6, 4, 2>>, <<1, 2, 7, 3, 2>>,
    <<1, 3, 5, 4, 2>>, <<1, 3, 6, 3, 2>>, <<1, 3, 7, 2, 2>>, <<2, 0, 7, 4, 2>>,
    <<2, 1, 6, 4, 2>>, <<2, 1, 7, 3, 2>>, <<2, 2, 5, 4, 2>>, <<2, 2, 6, 3, 2>>,
    <<2, 2, 7, 2, 2>>, <<2, 3, 5, 3, 2>>, <<2, 3, 6, 2, 2>>, <<2, 3, 6, 3, 1>>,
    <<2, 3, 6, 4, 0>>, <<2, 3, 7, 1, 2>>, <<2, 3, 7, 3, 0>>, <<3, 0, 6, 4, 2>>,
    <<3, 0, 7, 3, 2>>, <<3, 1, 6, 3, 2>>, <<3, 1, 7, 2, 2>>, <<3, 2, 4, 4, 2>>,
    <<3, 2, 6, 2, 2>>, <<3, 2, 6, 3, 1>>, <<3, 2, 7, 1, 2>>, <<3, 2, 7, 2, 1>>,
    <<3, 2, 7, 3, 0>>, <<3, 3, 4, 3, 2>>, <<3, 3, 5, 2, 2>>, <<3, 3, 5, 3, 1>>,
    <<3, 3, 5, 4, 0>>, <<3, 3, 6, 1, 2>>, <<3, 3, 6, 2, 1>>, <<3, 3, 7, 0, 2>>,
    <<3, 3, 7, 2, 0>>, <<4, 0, 5, 4, 2>>, <<4, 0, 7, 2, 2>>, <<4, 1, 4, 4, 2>>,
    <<4, 1, 5, 3, 2>>, <<4, 1, 6, 2, 2>>, <<4, 1, 6, 3, 1>>, <<4, 1, 6, 4, 0>>,
    <<4, 1, 7, 1, 2>>, <<4, 1, 7, 2, 1>>, <<4, 2, 3, 4, 2>>, <<4, 2, 4, 3, 2>>,
    <<4, 2, 5, 2, 2>>, <<4, 2, 5, 3, 1>>, <<4, 2, 5, 4, 0>>, <<4, 2, 6, 2, 1>>,
    <<4, 2, 6, 3, 0>>, <<4, 2, 7, 0, 2>>, <<4, 3, 3, 3, 2>>, <<4, 3, 5, 1, 2>>,
    <<4, 3, 5, 2, 1>>, <<4, 3, 5, 3, 0>>, <<4, 3, 6, 2, 0>>, <<5, 0, 4, 4, 2>>,
    <<5, 0, 5, 3, 2>>, <<5, 0, 6, 2, 2>>, <<5, 0, 6, 3, 1>>, <<5, 0, 6, 4, 0>>,
    <<5, 0, 7, 2, 1>>, <<5, 0, 7, 3, 0>>, <<5, 1, 3, 4, 2>>, <<5, 1, 4, 3, 2>>,
    <<5, 1, 5, 2, 2>>, <<5, 1, 5, 4, 0>>, <<5, 1, 6, 1, 2>>, <<5, 1, 6, 2, 1>>,
    <<5, 1, 6, 3, 0>>, <<5, 1, 7, 2, 0>>, <<5, 2, 3, 3, 2>>, <<5, 2, 4, 2, 2>>,
    <<5, 2, 5, 1, 2>>, <<5, 2, 5, 3, 0>>, <<5, 2, 6, 0, 2>>, <<5, 2, 6, 2, 0>>,
    <<5, 3, 4, 1, 2>>, <<5, 3, 4, 2, 1>>, <<5, 3, 4, 3, 0>>, <<5, 3, 5, 2, 0>> }

\* the quantities of books 1, 2, 4, 5 and 6 in cart
quantitiesOf(cart) ==
    LET q(id) == IF id \in DOMAIN cart THEN cart[id].quantity ELSE 0
    IN  <<q(1), q(2), q(4), q(5), q(6)>>

\* calculateTotal(cart), in cents: subtotal plus 10% tax, rounded by
\* toFixed(2) on the floating-point sum
calculateTotal(cart) ==
    LET RECURSIVE Sum(_)
        Sum(keys) == IF keys = {} THEN 0
                     ELSE LET k == CHOOSE x \in keys : TRUE
                          IN  cart[k].book.price * cart[k].quantity + Sum(keys \ {k})
        subtotal == Sum(DOMAIN cart)
        belowTie == /\ DOMAIN cart \subseteq BookIds
                    /\ \/ subtotal \in totalBelowTie
                       \/ quantitiesOf(cart) \in totalBelowTieCarts
    IN  toFixed2(11 * subtotal, 10) - (IF belowTie THEN 1 ELSE 0)

----------------------------------------------------------------------------
(* The payment simulator *)

validMethods == {"credit", "debit", "paypal"}

\* Math.random() draws are hundredths: 20 is 0.2, 50 is 0.5.
\* r.toString(36).substr(2, 9) of a draw r
Base36Tail(r) ==
    CASE r = 10 -> "3llllllll"
      [] r = 20 -> "777777777"
      [] r = 50 -> "i"
      [] OTHER  -> "000000000"

\* processPayment testing the method before the amount
processPayment_MethodFirst(cartTotal, paymentMethod, r1, r2, clock) ==
    IF paymentMethod \notin validMethods
    THEN Threw(<<"Invalid payment method">>)
    ELSE IF LeqZero(cartTotal)
    THEN Threw(<<"Invalid cart total">>)
    ELSE LET success == r1 > 20
         IN  IF success
             THEN Returned([success |-> TRUE,
                            transactionId |-> <<"TXN", clock, Base36Tail(r2)>>])
             ELSE Returned([success |-> FALSE, transactionId |-> <<"null">>])

\* processPayment(cartTotal, paymentMethod) when Math.random() returns r1 and
\* then r2 and Date.now() returns clock
processPayment(cartTotal, paymentMethod, r1, r2, clock) ==
    IF LeqZero(cartTotal)
    THEN Threw(<<"Invalid cart total">>)
    ELSE IF paymentMethod \notin validMethods
    THEN Threw(<<"Invalid payment method">>)
    ELSE LET success == r1 > 20
         IN  IF success
             THEN Returned([success |-> TRUE,
                            transactionId |-> <<"TXN", clock, Base36Tail(r2)>>])
             ELSE Returned([success |-> FALSE, transactionId |-> <<"null">>])

----------------------------------------------------------------------------
(* The inventory commit *)

Min(S) == CHOOSE x \in S : \A y \in S : x <= y

\* failingLines with the quantity compared with the stock copied into the
\* line instead of the live stock
failingLines_SnapshotStock(stk, cart) ==
    {k \in DOMAIN cart : k \notin BookIds \/ cart[k].book.stock < cart[k].quantity}

\* the keys of `cart` whose line fails the validation loop
failingLines(stk, cart) ==
    {k \in DOMAIN cart : k \notin BookIds \/ stk[k] < cart[k].quantity}

\* applyUpdates taking one copy per line whatever its quantity
applyUpdates_ByOne(stk, cart) ==
    [id \in BookIds |-> IF id \in DOMAIN cart THEN stk[id] - 1 ELSE stk[id]]

\* the second loop of updateInventory: every line's quantity subtracted
applyUpdates(stk, cart) ==
    [id \in BookIds |-> IF id \in DOMAIN cart THEN stk[id] - cart[id].quantity ELSE stk[id]]

\* updateInventory with one loop that validates and subtracts line by line,
\* in ascending key order: the lines before the failing one stay subtracted
RECURSIVE singlePass(_, _, _)
singlePass(stk, cart, keys) ==
    IF keys = {}
    THEN [out |-> Returned([k \in DOMAIN cart |-> stk[k]]), stock |-> stk]
    ELSE LET k == Min(keys)
         IN  IF k \notin BookIds
             THEN [out |-> Threw(<<"Book with ID", k, "not found in inventory">>),
                   stock |-> stk]
             ELSE IF stk[k] < cart[k].quantity
             THEN [out |-> Threw(<<"Insufficient stock for", find(k).title,
                                   "Available:", stk[k], "Requested:", cart[k].quantity>>),
                   stock |-> stk]
             ELSE singlePass([stk EXCEPT ![k] = @ - cart[k].quantity], cart, keys \ {k})

updateInventory_SinglePass(stk, cart) == singlePass(stk, cart, DOMAIN cart)

\* updateInventory(cart) run on the catalog stock `stk`: the outcome and the
\* stock it leaves.  for-in visits integer keys in ascending order, so the
\* error thrown is that of the smallest failing key.
updateInventory(stk, cart) ==
    IF failingLines(stk, cart) # {}
    THEN LET k == Min(failingLines(stk, cart))
         IN  IF k \notin BookIds
             THEN [out |-> Threw(<<"Book with ID", k, "not found in inventory">>),
                   stock |-> stk]
             ELSE [out |-> Threw(<<"Insufficient stock for", find(k).title,
                                   "Available:", stk[k], "Requested:", cart[k].quantity>>),
                   stock |-> stk]
    ELSE LET newStock == applyUpdates(stk, cart)
         IN  [out |-> Returned([k \in DOMAIN cart |-> newStock[k]]), stock |-> newStock]

----------------------------------------------------------------------------
(* The purchase orchestrator *)

\* catchBlock without the restore: the cart stays as the failed step left it
catchBlock_NoRestore(originalCart, error, curCart, curStock, curLog) ==
    [result |-> [success |-> FALSE, error |-> error, message |-> "Purchase failed"],
     cart |-> curCart, stock |-> curStock, log |-> curLog]

\* catchBlock reporting a fixed text instead of the message of the error it
\* caught
catchBlock_GenericError(originalCart, error, curCart, curStock, curLog) ==
    [result |-> [success |-> FALSE, error |-> <<"Purchase failed">>, message |-> "Purchase failed"],
     cart |-> originalCart, stock |-> curStock, log |-> curLog]

\* the catch block of completePurchase and completePurchaseWithExtras:
\* originalCart is the snapshot taken on entry, curCart, curStock and curLog
\* the shared state when the error is caught
catchBlock(originalCart, error, curCart, curStock, curLog) ==
    [result |-> [success |-> FALSE, error |-> error, message |-> "Purchase failed"],
     cart |-> originalCart, stock |-> curStock, log |-> curLog]

\* successReturn without the clearing of the cart (as in the first version of
\* completePurchase, lines 216-225)
successReturn_NoClear(result, curCart, curStock, curLog) ==
    [result |-> result, cart |-> curCart, stock |-> curStock, log |-> curLog]

\* the end of the try block of both orchestrators: the shared cart is
\* cleared and the confirmation returned; curCart, curStock and curLog are
\* the shared state when the end is reached
successReturn(result, curCart, curStock, curLog) ==
    [result |-> result, cart |-> EmptyCart, stock |-> curStock, log |-> curLog]

\* completePurchase going on only when bookId is among the books the search
\* returned
completePurchase_SearchedBooksOnly(cart0, stk, log, searchQuery, bookId, quantity, paymentMethod, r1, r2, clock) ==
    LET originalCart == jsonClone(cart0)
        searchResults == searchBooks(searchQuery)
        added == addToCart(EmptyCart, stk, bookId, quantity)
        cart == added.out.ret
        total == calculateTotal(cart)
        paymentResult == processPayment(total, paymentMethod, r1, r2, clock)
        inventoryUpdate == updateInventory(stk, cart)
    IN  IF \A i \in 1..Len(searchResults) : searchResults[i] # bookId
        THEN catchBlock(originalCart, <<"No books found matching your search">>, cart0, stk, log)
        ELSE IF added.out.threw
        THEN catchBlock(originalCart, added.out.error, added.cart, stk, log)
        ELSE IF LeqZero(total)
        THEN catchBlock(originalCart, <<"Invalid cart total">>, added.cart, stk, log)
        ELSE IF paymentResult.threw
        THEN catchBlock(originalCart, paymentResult.error, added.cart, stk, log)
        ELSE IF ~paymentResult.ret.success
        THEN catchBlock(originalCart, <<"Payment processing failed. Please try again.">>,
                        originalCart, stk, log)
        ELSE IF inventoryUpdate.out.threw
        THEN catchBlock(originalCart, inventoryUpdate.out.error, added.cart,
                        inventoryUpdate.stock, log)
        ELSE successReturn([success |-> TRUE,
                            orderId |-> <<"ORD", clock>>,
                            transactionId |-> paymentResult.ret.transactionId,
                            items |-> cart,
                            total |-> total,
                            inventoryUpdated |-> inventoryUpdate.out.ret,
                            message |-> "Purchase completed successfully!"],
                           added.cart, inventoryUpdate.stock, log)

\* completePurchase(searchQuery, bookId, quantity, paymentMethod) run on the
\* shared cart `cart0`, stock `stk` and email log `log`, with Math.random()
\* returning r1 then r2 and Date.now() returning clock: the result object and
\* the shared state it leaves
completePurchase(cart0, stk, log, searchQuery, bookId, quantity, paymentMethod, r1, r2, clock) ==
    LET originalCart == jsonClone(cart0)
        searchResults == searchBooks(searchQuery)
        added == addToCart(EmptyCart, stk, bookId, quantity)
        cart == added.out.ret
        total == calculateTotal(cart)
        paymentResult == processPayment(total, paymentMethod, r1, r2, clock)
        inventoryUpdate == updateInventory(stk, cart)
    IN  IF Len(searchResults) = 0
        THEN catchBlock(originalCart, <<"No books found matching your search">>, cart0, stk, log)
        ELSE IF added.out.threw
        THEN catchBlock(originalCart, added.out.error, added.cart, stk, log)
        ELSE IF LeqZero(total)
        THEN catchBlock(originalCart, <<"Invalid cart total">>, added.cart, stk, log)
        ELSE IF paymentResult.threw
        THEN catchBlock(originalCart, paymentResult.error, added.cart, stk, log)
        ELSE IF ~paymentResult.ret.success
        THEN catchBlock(originalCart, <<"Payment processing failed. Please try again.">>,
                        originalCart, stk, log)
        ELSE IF inventoryUpdate.out.threw
        THEN catchBlock(originalCart, inventoryUpdate.out.error, added.cart,
                        inventoryUpdate.stock, log)
        ELSE successReturn([success |-> TRUE,
                            orderId |-> <<"ORD", clock>>,
                            transactionId |-> paymentResult.ret.transactionId,
                            items |-> cart,
                            total |-> total,
                            inventoryUpdated |-> inventoryUpdate.out.ret,
                            message |-> "Purchase completed successfully!"],
                           added.cart, inventoryUpdate.stock, log)

----------------------------------------------------------------------------
(* Coupons, shipping and the extended pricing *)

\* couponDatabase: value is a percentage or an amount in cents, minPurchase
\* an amount in cents
couponDatabase == {
    [code |-> <<"S","A","V","E","1","0">>, type |-> "percentage", value |-> 10, minPurchase |-> 0],
    [code |-> <<"S","A","V","E","2","0">>, type |-> "percentage", value |-> 20, minPurchase |-> 5000],
    [code |-> <<"F","L","A","T","5">>, type |-> "fixed", value |-> 500, minPurchase |-> 2000],
    [code |-> <<"F","R","E","E","S","H","I","P">>, type |-> "free_shipping", value |-> 0, minPurchase |-> 0] }

\* shippingOptions: cost in cents
shippingOptions == [
    standard  |-> [name |-> "Standard Shipping", cost |-> 599],
    express   |-> [name |-> "Express Shipping", cost |-> 1299],
    overnight |-> [name |-> "Overnight Shipping", cost |-> 2499],
    free      |-> [name |-> "Free Shipping", cost |-> 0] ]


\* The subtotals of the carts of catalog items within the seeded stock for
\* which subtotal * (10 / 100), computed in binary floating point, lies just
\* below a value ending in half a cent: toFixed(2) rounds it down.
discountBelowTie == {
    18685, 18735, 18935, 18985, 19185, 19235, 19485, 19735 }

\* parseFloat((subtotal * (value / 100)).toFixed(2))
percentageDiscount(subtotal, value) ==
    toFixed2(subtotal * value, 100)
        - (IF value = 10 /\ subtotal \in discountBelowTie THEN 1 ELSE 0)

\* applyCoupon granting a coupon whatever the subtotal
applyCoupon_MinimumIgnored(couponCode, subtotal) ==
    IF Falsy(couponCode)
    THEN [valid |-> FALSE, discount |-> 0, type |-> "undefined", freeShipping |-> FALSE,
          message |-> <<"No coupon provided">>]
    ELSE LET key == toUpperCase(couponCode.v)
             found == {c \in couponDatabase : c.code = key}
         IN  IF found = {}
             THEN [valid |-> FALSE, discount |-> 0, type |-> "undefined", freeShipping |-> FALSE,
                   message |-> <<"Invalid coupon code">>]
             ELSE LET coupon == CHOOSE c \in found : TRUE
                  IN  [valid |-> TRUE,
                       discount |-> CASE coupon.type = "percentage" ->
                                             percentageDiscount(subtotal, coupon.value)
                                      [] coupon.type = "fixed" -> coupon.value
                                      [] OTHER -> 0,
                       type |-> coupon.type,
                       freeShipping |-> (coupon.type = "free_shipping"),
                       message |-> <<"Coupon applied successfully">>]

\* applyCoupon(couponCode, subtotal).  The results the code builds without a
\* freeShipping or type property carry FALSE and "undefined" here: the field
\* is only ever tested for truth.
applyCoupon(couponCode, subtotal) ==
    IF Falsy(couponCode)
    THEN [valid |-> FALSE, discount |-> 0, type |-> "undefined", freeShipping |-> FALSE,
          message |-> <<"No coupon provided">>]
    ELSE LET key == toUpperCase(couponCode.v)
             found == {c \in couponDatabase : c.code = key}
         IN  IF found = {}
             THEN [valid |-> FALSE, discount |-> 0, type |-> "undefined", freeShipping |-> FALSE,
                   message |-> <<"Invalid coupon code">>]
             ELSE LET coupon == CHOOSE c \in found : TRUE
                  IN  IF subtotal < coupon.minPurchase
                      THEN [valid |-> FALSE, discount |-> 0, type |-> "undefined",
                            freeShipping |-> FALSE,
                            message |-> <<"Minimum purchase of", coupon.minPurchase, "required">>]
                      ELSE [valid |-> TRUE,
                            discount |-> CASE coupon.type = "percentage" ->
                                                  percentageDiscount(subtotal, coupon.value)
                                           [] coupon.type = "fixed" -> coupon.value
                                           [] OTHER -> 0,
                            type |-> coupon.type,
                            freeShipping |-> (coupon.type = "free_shipping"),
                            message |-> <<"Coupon applied successfully">>]

\* the subtotal loop of calculateTotalWithExtras, in cents
cartSubtotal(cart) ==
    LET RECURSIVE Sum(_)
        Sum(keys) == IF keys = {} THEN 0
                     ELSE LET k == CHOOSE x \in keys : TRUE
                          IN  cart[k].book.price * cart[k].quantity + Sum(keys \ {k})
    IN  toFixed2(Sum(DOMAIN cart), 1)

\* The pairs <<subtotal, discount>>, over the carts of catalog items within
\* the seeded stock and the coupons of the table, for which
\* (subtotal - discount) * 0.1, computed in binary floating point, lies just
\* below a value ending in half a cent: toFixed(2) rounds it down.
taxBelowTie == {
    <<7194, 1439>>, <<7244, 1449>>, <<7294, 729>>, <<7294, 1459>>,
    <<7594, 759>>, <<7794, 779>>, <<7794, 1559>>, <<7994, 1599>>,
    <<8044, 1609>>, <<8194, 1639>>, <<8294, 1659>>, <<8394, 839>>,
    <<8444, 1689>>, <<13439, 1344>>, <<13639, 1364>>, <<13839, 1384>>,
    <<13939, 1394>>, <<14039, 1404>>, <<14139, 1414>>, <<14239, 1424>>,
    <<14339, 1434>>, <<14439, 1444>>, <<14739, 1474>>, <<14839, 1484>>,
    <<18685, 0>>, <<18685, 500>>, <<18735, 0>>, <<18735, 500>>, <<18935, 0>>,
    <<18935, 500>>, <<18985, 0>>, <<18985, 500>>, <<19185, 0>>,
    <<19185, 500>>, <<19235, 0>>, <<19235, 500>>, <<19435, 500>>,
    <<19485, 0>>, <<19485, 500>>, <<19685, 500>>, <<19735, 0>>,
    <<19735, 500>> }

\* parseFloat((afterDiscount * 0.1).toFixed(2)) for afterDiscount = subtotal - discount
taxOf(subtotal, discount) ==
    toFixed2(subtotal - discount, 10)
        - (IF <<subtotal, discount>> \in taxBelowTie THEN 1 ELSE 0)

\* Property names every object inherits from Object.prototype (two of them)
\* and the `name` of the function found there; such a function has no `cost`.
ObjectPrototype == [constructor |-> [name |-> "Object", cost |-> undefined],
                    toString    |-> [name |-> "toString", cost |-> undefined]]

\* shippingOptions[shippingMethod] || shippingOptions.standard
shippingLookup(shippingMethod) ==
    IF shippingMethod \in DOMAIN shippingOptions
    THEN shippingOptions[shippingMethod]
    ELSE IF shippingMethod \in DOMAIN ObjectPrototype
    THEN ObjectPrototype[shippingMethod]
    ELSE shippingOptions.standard

\* calculateTotalWithExtras(cart, couponCode, shippingMethod); cart is a JS
\* value: null, a number, or an object whose properties are cart lines
calculateTotalWithExtras(cart, couponCode, shippingMethod) ==
    IF Falsy(cart) \/ cart.t # "object"
    THEN [subtotal |-> 0, discount |-> 0, tax |-> 0, shipping |-> 0, total |-> 0]
    ELSE
    LET subtotal == cartSubtotal(cart.v)
        couponResult == applyCoupon(couponCode, subtotal)
        discount == IF couponResult.valid THEN couponResult.discount ELSE 0
        afterDiscount == subtotal - discount
        tax == taxOf(subtotal, discount)
        shipping == shippingLookup(shippingMethod)
        shippingCost == IF couponResult.freeShipping THEN 0 ELSE shipping.cost
        total == IF shippingCost = undefined
                 THEN NaN
                 ELSE toFixed2(afterDiscount + tax + shippingCost, 1)
    IN  [subtotal |-> subtotal,
         discount |-> discount,
         tax |-> tax,
         shipping |-> shippingCost,
         shippingMethod |-> shipping.name,
         total |-> total,
         couponApplied |-> couponResult.valid,
         couponMessage |-> couponResult.message]

----------------------------------------------------------------------------
(* The notifier *)

\* sendEmailNotification turning down only a missing recipient
sendEmailNotification_NoAtCheck(log, recipient, subject, orderDetails, clock) ==
    IF Falsy(recipient)
    THEN [ret |-> [sent |-> FALSE, emailId |-> <<"undefined">>,
                   error |-> "Invalid email address"],
          log |-> log]
    ELSE LET email == [id |-> <<"EMAIL", clock>>,
                       to |-> recipient,
                       subject |-> subject,
                       orderDetails |-> orderDetails,
                       timestamp |-> clock,
                       status |-> "sent"]
         IN  [ret |-> [sent |-> TRUE, emailId |-> email.id, error |-> "undefined"],
              log |-> Append(log, email)]

\* sendEmailNotification(recipient, subject, orderDetails) run on the email
\* log `log` with Date.now() returning clock: the value returned and the log
\* it leaves
sendEmailNotification(log, recipient, subject, orderDetails, clock) ==
    IF Falsy(recipient) \/ ~includes(recipient.v, <<"@">>)
    THEN [ret |-> [sent |-> FALSE, emailId |-> <<"undefined">>,
                   error |-> "Invalid email address"],
          log |-> log]
    ELSE LET email == [id |-> <<"EMAIL", clock>>,
                       to |-> recipient,
                       subject |-> subject,
                       orderDetails |-> orderDetails,
                       timestamp |-> clock,
                       status |-> "sent"]
         IN  [ret |-> [sent |-> TRUE, emailId |-> email.id, error |-> "undefined"],
              log |-> Append(log, email)]

\* completePurchaseWithExtras with the acceptance of the payment tested after
\* the inventory update and the email instead of before them
completePurchaseWithExtras_PaymentLast(cart0, stk, log, searchQuery, bookId, quantity, paymentMethod, options, r1, r2, clock) ==
    LET couponCode == options.couponCode
        shippingMethod == options.shippingMethod
        customerEmail == options.customerEmail
        originalCart == jsonClone(cart0)
        searchResults == searchBooks(searchQuery)
        added == addToCart(EmptyCart, stk, bookId, quantity)
        cart == added.out.ret
        pricing == calculateTotalWithExtras(JsObject(cart), couponCode, shippingMethod)
        paymentResult == processPayment(pricing.total, paymentMethod, r1, r2, clock)
        inventoryUpdate == updateInventory(stk, cart)
        attempted == ~Falsy(customerEmail)
        emailCall == sendEmailNotification(log, customerEmail, "Order Confirmation",
                         [orderId |-> <<"ORD", clock>>,
                          items |-> cart,
                          pricing |-> pricing,
                          transactionId |-> paymentResult.ret.transactionId],
                         clock)
        newLog == IF attempted THEN emailCall.log ELSE log
    IN  IF Len(searchResults) = 0
        THEN catchBlock(originalCart, <<"No books found matching your search">>, cart0, stk, log)
        ELSE IF added.out.threw
        THEN catchBlock(originalCart, added.out.error, added.cart, stk, log)
        ELSE IF LeqZero(pricing.total)
        THEN catchBlock(originalCart, <<"Invalid cart total">>, added.cart, stk, log)
        ELSE IF paymentResult.threw
        THEN catchBlock(originalCart, paymentResult.error, added.cart, stk, log)
        ELSE IF inventoryUpdate.out.threw
        THEN catchBlock(originalCart, inventoryUpdate.out.error, added.cart,
                        inventoryUpdate.stock, log)
        ELSE IF ~paymentResult.ret.success
        THEN catchBlock(originalCart, <<"Payment processing failed. Please try again.">>,
                        originalCart, inventoryUpdate.stock, newLog)
        ELSE successReturn([success |-> TRUE,
                            orderId |-> <<"ORD", clock>>,
                            transactionId |-> paymentResult.ret.transactionId,
                            items |-> cart,
                            pricing |-> pricing,
                            inventoryUpdated |-> inventoryUpdate.out.ret,
                            emailSent |-> IF attempted THEN emailCall.ret.sent ELSE FALSE,
                            emailId |-> IF attempted THEN emailCall.ret.emailId
                                        ELSE <<"null">>,
                            message |-> "Purchase completed successfully!"],
                           added.cart, inventoryUpdate.stock, newLog)

\* completePurchaseWithExtras without the reset of the cart (line 779): the
\* line is added to the cart as the caller left it
completePurchaseWithExtras_NoReset(cart0, stk, log, searchQuery, bookId, quantity, paymentMethod, options, r1, r2, clock) ==
    LET couponCode == options.couponCode
        shippingMethod == options.shippingMethod
        customerEmail == options.customerEmail
        originalCart == jsonClone(cart0)
        searchResults == searchBooks(searchQuery)
        added == addToCart(cart0, stk, bookId, quantity)
        cart == added.out.ret
        pricing == calculateTotalWithExtras(JsObject(cart), couponCode, shippingMethod)
        paymentResult == processPayment(pricing.total, paymentMethod, r1, r2, clock)
        inventoryUpdate == updateInventory(stk, cart)
        attempted == ~Falsy(customerEmail)
        emailCall == sendEmailNotification(log, customerEmail, "Order Confirmation",
                         [orderId |-> <<"ORD", clock>>,
                          items |-> cart,
                          pricing |-> pricing,
                          transactionId |-> paymentResult.ret.transactionId],
                         clock)
    IN  IF Len(searchResults) = 0
        THEN catchBlock(originalCart, <<"No books found matching your search">>, cart0, stk, log)
        ELSE IF added.out.threw
        THEN catchBlock(originalCart, added.out.error, added.cart, stk, log)
        ELSE IF LeqZero(pricing.total)
        THEN catchBlock(originalCart, <<"Invalid cart total">>, added.cart, stk, log)
        ELSE IF paymentResult.threw
        THEN catchBlock(originalCart, paymentResult.error, added.cart, stk, log)
        ELSE IF ~paymentResult.ret.success
        THEN catchBlock(originalCart, <<"Payment processing failed. Please try again.">>,
                        originalCart, stk, log)
        ELSE IF inventoryUpdate.out.threw
        THEN catchBlock(originalCart, inventoryUpdate.out.error, added.cart,
                        inventoryUpdate.stock, log)
        ELSE successReturn([success |-> TRUE,
                            orderId |-> <<"ORD", clock>>,
                            transactionId |-> paymentResult.ret.transactionId,
                            items |-> cart,
                            pricing |-> pricing,
                            inventoryUpdated |-> inventoryUpdate.out.ret,
                            emailSent |-> IF attempted THEN emailCall.ret.sent ELSE FALSE,
                            emailId |-> IF attempted THEN emailCall.ret.emailId
                                        ELSE <<"null">>,
                            message |-> "Purchase completed successfully!"],
                           added.cart, inventoryUpdate.stock,
                           IF attempted THEN emailCall.log ELSE log)

\* completePurchaseWithExtras(searchQuery, bookId, quantity, paymentMethod,
\* options) run on the shared cart `cart0`, stock `stk` and email log `log`;
\* options is the record {couponCode, shippingMethod, customerEmail} after
\* the defaults of the destructuring have been filled in. Date.now() returns
\* clock up to and including the email step (the order id of the payload,
\* line 804) and returnClock when the result is built (the order id of line
\* 817)
completePurchaseWithExtrasAt(cart0, stk, log, searchQuery, bookId, quantity, paymentMethod, options, r1, r2, clock, returnClock) ==
    LET couponCode == options.couponCode
        shippingMethod == options.shippingMethod
        customerEmail == options.customerEmail
        originalCart == jsonClone(cart0)
        searchResults == searchBooks(searchQuery)
        added == addToCart(EmptyCart, stk, bookId, quantity)
        cart == added.out.ret
        pricing == calculateTotalWithExtras(JsObject(cart), couponCode, shippingMethod)
        paymentResult == processPayment(pricing.total, paymentMethod, r1, r2, clock)
        inventoryUpdate == updateInventory(stk, cart)
        attempted == ~Falsy(customerEmail)
        emailCall == sendEmailNotification(log, customerEmail, "Order Confirmation",
                         [orderId |-> <<"ORD", clock>>,
                          items |-> cart,
                          pricing |-> pricing,
                          transactionId |-> paymentResult.ret.transactionId],
                         clock)
    IN  IF Len(searchResults) = 0
        THEN catchBlock(originalCart, <<"No books found matching your search">>, cart0, stk, log)
        ELSE IF added.out.threw
        THEN catchBlock(originalCart, added.out.error, added.cart, stk, log)
        ELSE IF LeqZero(pricing.total)
        THEN catchBlock(originalCart, <<"Invalid cart total">>, added.cart, stk, log)
        ELSE IF paymentResult.threw
        THEN catchBlock(originalCart, paymentResult.error, added.cart, stk, log)
        ELSE IF ~paymentResult.ret.success
        THEN catchBlock(originalCart, <<"Payment processing failed. Please try again.">>,
                        originalCart, stk, log)
        ELSE IF inventoryUpdate.out.threw
        THEN catchBlock(originalCart, inventoryUpdate.out.error, added.cart,
                        inventoryUpdate.stock, log)
        ELSE successReturn([success |-> TRUE,
                            orderId |-> <<"ORD", returnClock>>,
                            transactionId |-> paymentResult.ret.transactionId,
                            items |-> cart,
                            pricing |-> pricing,
                            inventoryUpdated |-> inventoryUpdate.out.ret,
                            emailSent |-> IF attempted THEN emailCall.ret.sent ELSE FALSE,
                            emailId |-> IF attempted THEN emailCall.ret.emailId
                                        ELSE <<"null">>,
                            message |-> "Purchase completed successfully!"],
                           added.cart, inventoryUpdate.stock,
                           IF attempted THEN emailCall.log ELSE log)

\* completePurchaseWithExtras run within one reading of the clock
completePurchaseWithExtras(cart0, stk, log, searchQuery, bookId, quantity, paymentMethod, options, r1, r2, clock) ==
    completePurchaseWithExtrasAt(cart0, stk, log, searchQuery, bookId, quantity, paymentMethod,
                                 options, r1, r2, clock, clock)

----------------------------------------------------------------------------
(* The arguments callers pass *)

\* book ids: two books in stock, one out of stock (3), one unknown (7)
BookIdArgs == {2, 3, 6, 7}
QuantityArgs == -1..MaxQty
MethodArgs == {"credit", "bitcoin"}
\* the two Math.random() draws of a processPayment call, in hundredths: the
\* first decides acceptance (0.2 rejects, 0.5 accepts), the second makes the
\* transaction id
DrawArgs == {<<20, 50>>, <<50, 50>>}
\* SAVE10 always applies; SAVE20 needs a subtotal of 50.00
CouponArgs == {JsNull, JsStr(<<"s","a","v","e","1","0">>), JsStr(<<"S","A","V","E","2","0">>)}
ShippingArgs == {"standard", "free"}
\* "a@b" is accepted as a recipient, "ab" is not
ValidEmail == JsStr(<<"a","@","b">>)
EmailArgs == {JsNull, ValidEmail, JsStr(<<"a","b">>)}

\* The argument lists of completePurchase: every query with one good order,
\* and the matching query with every book, quantity, method and draw.
PurchaseArgs ==
    {<<s, 6, 1, "credit", <<50, 50>> >> : s \in QueryArgs}
    \cup {<<JsStr(<<"O","R","W","E","L","L">>), b, q, m, d>> :
            b \in BookIdArgs, q \in QuantityArgs, m \in MethodArgs, d \in DrawArgs}

\* the options object {couponCode, shippingMethod, customerEmail}
Options(c, sh, e) == [couponCode |-> c, shippingMethod |-> sh, customerEmail |-> e]
NoOptions == Options(JsNull, "standard", JsNull)
OptionArgs == {Options(c, sh, e) : c \in CouponArgs, sh \in ShippingArgs, e \in EmailArgs}

\* The argument lists of completePurchaseWithExtras under Spec: those of
\* completePurchase with no options, and every option with the orders of
\* book 6, except that an order with a valid address is one whose payment is
\* rejected (Spec keeps the email log empty; SpecNotify fills it).
ExtrasArgs ==
    {<<a, NoOptions>> : a \in PurchaseArgs}
    \cup {x \in {<< <<JsStr(<<"O","R","W","E","L","L">>), 6, q, "credit", d>>, o>> :
                    q \in 1..MaxQty, d \in DrawArgs, o \in OptionArgs} :
            x[2].customerEmail = ValidEmail => x[1][5][1] <= 20}

\* The argument lists of completePurchaseWithExtras under SpecNotify: orders
\* of book 6 with or without the SAVE10 coupon and every address.
NotifyArgs ==
    {<< <<JsStr(<<"O","R","W","E","L","L">>), 6, q, "credit", d>>, Options(c, "standard", e)>> :
        q \in 1..MaxQty, d \in DrawArgs,
        c \in {JsNull, JsStr(<<"s","a","v","e","1","0">>)}, e \in EmailArgs}

\* The argument lists of completePurchaseWithExtras under SpecCoupon: orders
\* of book 6 with no coupon, SAVE10, SAVE20 or a code that is not in the
\* coupon table, with or without an address.
CouponOrderArgs ==
    {<< <<JsStr(<<"O","R","W","E","L","L">>), 6, q, "credit", d>>, Options(c, "standard", e)>> :
        q \in 1..MaxQty, d \in DrawArgs,
        c \in CouponArgs \cup {JsStr(<<"N","O","P","E">>)}, e \in {JsNull, ValidEmail}}

\* a cart line as a caller would write it by hand
HandLine(id, quantity) ==
    [book |-> [id |-> id,
               price |-> IF id \in BookIds THEN find(id).price ELSE 0,
               stock |-> IF id \in BookIds THEN SeedStock[id] ELSE 0],
     quantity |-> quantity]

\* cart objects passed to updateInventory besides the shared cart: lines of
\* one copy or of MaxQty copies over three keys
CartArgs ==
    {[k \in keys |-> HandLine(k, q[k])] :
        q \in [{2, 6, 7} -> {1, MaxQty}], keys \in SUBSET {2, 6, 7}}

\* the books callers put into the shared cart one call at a time
AddArgs == {3, 6, 7}

----------------------------------------------------------------------------
(* The operations *)

\* the shared state a call starts from
Pre == [stock |-> stock, cart |-> shoppingCart, log |-> emailLog]

Init ==
    /\ stock = SeedStock
    /\ shoppingCart = EmptyCart
    /\ emailLog = <<>>
    /\ now = 0
    /\ committed = [id \in BookIds |-> 0]
    /\ last = [op |-> "init", pre |-> Pre]

\* the clock advances between calls
Tick ==
    /\ now < MaxClock
    /\ now' = now + 1
    /\ UNCHANGED <<stock, shoppingCart, emailLog, last, committed>>

AddToCart(bookId, quantity) ==
    \E r \in {addToCart(shoppingCart, stock, bookId, quantity)} :
        /\ shoppingCart' = r.cart
        /\ last' = [op |-> "addToCart",
                    args |-> [bookId |-> bookId, quantity |-> quantity],
                    out |-> r.out, pre |-> Pre,
                    shares |-> IF r.out.threw THEN "nothing" ELSE r.shares]
        /\ UNCHANGED <<stock, emailLog, now, committed>>

UpdateInventory(cart) ==
    \E r \in {updateInventory(stock, cart)} :
        /\ stock' = r.stock
        /\ last' = [op |-> "updateInventory", args |-> [cart |-> cart],
                    out |-> r.out, pre |-> Pre]
        /\ committed' = IF r.out.threw THEN committed
                        ELSE [id \in BookIds |->
                                committed[id]
                                + (IF id \in DOMAIN cart THEN cart[id].quantity ELSE 0)]
        /\ UNCHANGED <<shoppingCart, emailLog, now>>

CompletePurchase(searchQuery, bookId, quantity, paymentMethod, r1, r2) ==
    \E r \in {completePurchase(shoppingCart, stock, emailLog, searchQuery, bookId, quantity,
                                paymentMethod, r1, r2, now)} :
        /\ shoppingCart' = r.cart
        /\ stock' = r.stock
        /\ emailLog' = r.log
        /\ last' = [op |-> "completePurchase", out |-> Returned(r.result), pre |-> Pre]
        /\ committed' = IF r.result.success
                        THEN [committed EXCEPT ![bookId] = @ + quantity]
                        ELSE committed
        /\ UNCHANGED now

CompletePurchaseWithExtras(searchQuery, bookId, quantity, paymentMethod, options, r1, r2) ==
    \E r \in {completePurchaseWithExtras(shoppingCart, stock, emailLog, searchQuery, bookId,
                                          quantity, paymentMethod, options, r1, r2, now)} :
        /\ Len(r.log) <= MaxEmails
        /\ shoppingCart' = r.cart
        /\ stock' = r.stock
        /\ emailLog' = r.log
        /\ last' = [op |-> "completePurchaseWithExtras", out |-> Returned(r.result),
                    pre |-> Pre]
        /\ committed' = IF r.result.success
                        THEN [committed EXCEPT ![bookId] = @ + quantity]
                        ELSE committed
        /\ UNCHANGED now

ResetCart ==
    /\ shoppingCart' = EmptyCart
    /\ last' = [op |-> "resetCart", pre |-> Pre]
    /\ UNCHANGED <<stock, emailLog, now, committed>>

ResetInventory ==
    /\ stock' = SeedStock
    /\ last' = [op |-> "resetInventory", pre |-> Pre]
    /\ committed' = [id \in BookIds |-> 0]
    /\ UNCHANGED <<shoppingCart, emailLog, now>>

ClearEmailLog ==
    /\ emailLog' = <<>>
    /\ last' = [op |-> "clearEmailLog", pre |-> Pre]
    /\ UNCHANGED <<stock, shoppingCart, now, committed>>

Next ==
    \/ Tick
    \/ \E b \in AddArgs, q \in QuantityArgs : AddToCart(b, q)
    \/ \E c \in CartArgs \cup {shoppingCart} : UpdateInventory(c)
    \/ \E a \in PurchaseArgs : CompletePurchase(a[1], a[2], a[3], a[4], a[5][1], a[5][2])
    \/ \E x \in ExtrasArgs :
          CompletePurchaseWithExtras(x[1][1], x[1][2], x[1][3], x[1][4], x[2],
                                     x[1][5][1], x[1][5][2])
    \/ ResetCart
    \/ ResetInventory

Spec == Init /\ [][Next]_vars

\* The purchases that send mail, with an empty shared cart
NextNotify ==
    \/ Tick
    \/ \E x \in NotifyArgs :
          CompletePurchaseWithExtras(x[1][1], x[1][2], x[1][3], x[1][4], x[2],
                                     x[1][5][1], x[1][5][2])
    \/ ResetInventory
    \/ ClearEmailLog

SpecNotify == Init /\ [][NextNotify]_vars

\* completePurchaseWithExtras during which the clock moves on to returnClock
\* before the result is built
CompletePurchaseWithExtrasAt(searchQuery, bookId, quantity, paymentMethod, options, r1, r2, returnClock) ==
    \E r \in {completePurchaseWithExtrasAt(shoppingCart, stock, emailLog, searchQuery, bookId,
                                            quantity, paymentMethod, options, r1, r2, now,
                                            returnClock)} :
        /\ Len(r.log) <= MaxEmails
        /\ shoppingCart' = r.cart
        /\ stock' = r.stock
        /\ emailLog' = r.log
        /\ last' = [op |-> "completePurchaseWithExtras", out |-> Returned(r.result),
                    pre |-> Pre]
        /\ committed' = IF r.result.success
                        THEN [committed EXCEPT ![bookId] = @ + quantity]
                        ELSE committed
        /\ now' = returnClock

\* The purchases that send mail, the clock moving between calls and within
\* them
NextOrder ==
    \/ Tick
    \/ \E x \in NotifyArgs, returnClock \in 0..MaxClock :
          /\ returnClock >= now
          /\ CompletePurchaseWithExtrasAt(x[1][1], x[1][2], x[1][3], x[1][4], x[2],
                                          x[1][5][1], x[1][5][2], returnClock)
    \/ ResetInventory
    \/ ClearEmailLog

SpecOrder == Init /\ [][NextOrder]_vars

\* The purchases with a coupon
NextCoupon ==
    \/ \E x \in CouponOrderArgs :
          CompletePurchaseWithExtras(x[1][1], x[1][2], x[1][3], x[1][4], x[2],
                                     x[1][5][1], x[1][5][2])
    \/ ResetInventory
    \/ ClearEmailLog

SpecCoupon == Init /\ [][NextCoupon]_vars

----------------------------------------------------------------------------
(* The payment simulator and the notifier called on their own *)

\* the most records a sequence of direct sends puts into the email log
MaxSends == 2

\* amounts in cents: negative, zero and the total of one copy of book 6
AmountArgs == {-1, 0, calculateTotal([k \in {6} |-> HandLine(6, 1)])}
PayMethodArgs == validMethods \cup MethodArgs
\* the draws of DrawArgs, and an accepting draw followed by another id draw
PayDrawArgs == DrawArgs \cup {<<50, 10>>}
\* recipients: missing, empty, without and with "@"
RecipientArgs == EmailArgs \cup {JsStr(<<>>)}
SubjectArgs == {"Order Confirmation", "Test"}
\* the payload of a notification: an object with an orderId, or an empty one
PayloadArgs == {[orderId |-> <<"ORD", 0>>], [k \in {} |-> 0]}

\* processPayment(cartTotal, paymentMethod) called directly; `before` keeps
\* what the caller got from the call made just before, if that was a
\* processPayment too
ProcessPayment(cartTotal, paymentMethod, r1, r2) ==
    \E o \in {processPayment(cartTotal, paymentMethod, r1, r2, now)} :
        /\ last' = [op |-> "processPayment", out |-> o, pre |-> Pre,
                    args |-> [cartTotal |-> cartTotal, paymentMethod |-> paymentMethod],
                    before |-> IF last.op = "processPayment" THEN last.out ELSE Threw(<<>>)]
        /\ UNCHANGED <<stock, shoppingCart, emailLog, now, committed>>

\* sendEmailNotification(recipient, subject, orderDetails) called directly
SendEmailNotification(recipient, subject, orderDetails) ==
    \E r \in {sendEmailNotification(emailLog, recipient, subject, orderDetails, now)} :
        /\ Len(r.log) <= MaxSends
        /\ emailLog' = r.log
        /\ last' = [op |-> "sendEmailNotification", out |-> Returned(r.ret), pre |-> Pre,
                    args |-> [recipient |-> recipient, subject |-> subject,
                              orderDetails |-> orderDetails]]
        /\ UNCHANGED <<stock, shoppingCart, now, committed>>

\* The simulator called between additions to the cart, commits of the cart
\* and notifications.
NextPay ==
    \/ Tick
    \/ \E q \in 1..MaxQty : AddToCart(6, q)
    \/ UpdateInventory(shoppingCart)
    \/ \E t \in AmountArgs, m \in PayMethodArgs, d \in PayDrawArgs :
          ProcessPayment(t, m, d[1], d[2])
    \/ SendEmailNotification(ValidEmail, "Test", [k \in {} |-> 0])
    \/ ClearEmailLog

SpecPay == Init /\ [][NextPay]_vars

\* The notifier called with every recipient, subject and payload.
NextSend ==
    \/ Tick
    \/ \E e \in RecipientArgs, sb \in SubjectArgs, pl \in PayloadArgs :
          SendEmailNotification(e, sb, pl)
    \/ ClearEmailLog

SpecSend == Init /\ [][NextSend]_vars

----------------------------------------------------------------------------
(* The caller's copy of the email log *)

\* getEmailLog(): [...emailLog] is a new array holding the record objects of
\* the log themselves
getEmailLog(log) == [value |-> log, shares |-> "records"]

\* the payload kept in a record (line 735, orderDetails: orderDetails): the
\* object the caller passed, not a copy of it
keptPayload(orderDetails) == [value |-> orderDetails, shares |-> "object"]

GetEmailLog ==
    \E r \in {getEmailLog(emailLog)} :
        /\ last' = [op |-> "getEmailLog", out |-> Returned(r.value), pre |-> Pre,
                    shares |-> r.shares]
        /\ UNCHANGED <<stock, shoppingCart, emailLog, now, committed>>

\* the caller assigns the status of record i of the array getEmailLog
\* returned: the record of the log changes with it if it is the same object
ChangeReturnedRecord(i, status) ==
    /\ last.op = "getEmailLog"
    /\ i \in 1..Len(last.out.ret)
    /\ emailLog' = IF last.shares = "records"
                    THEN [emailLog EXCEPT ![i].status = status]
                    ELSE emailLog
    /\ last' = [op |-> "changeReturnedRecord", pre |-> Pre]
    /\ UNCHANGED <<stock, shoppingCart, now, committed>>

\* after a send, the caller assigns orderId in the payload object it passed:
\* the record appended by the send changes with it if it kept that object
ChangePayload(orderId) ==
    /\ last.op = "sendEmailNotification"
    /\ last.out.ret.sent
    /\ \E kept \in {keptPayload(last.args.orderDetails)} :
          emailLog' = IF kept.shares = "object"
                      THEN [emailLog EXCEPT
                               ![Len(emailLog)].orderDetails = [orderId |-> orderId]]
                      ELSE emailLog
    /\ last' = [op |-> "changePayload", pre |-> Pre]
    /\ UNCHANGED <<stock, shoppingCart, now, committed>>

\* The notifier, the readers of the log and a caller that changes what it
\* passed or was handed
NextLog ==
    \/ \E sb \in SubjectArgs, pl \in PayloadArgs : SendEmailNotification(ValidEmail, sb, pl)
    \/ GetEmailLog
    \/ ChangeReturnedRecord(1, "read")
    \/ ChangePayload(<<"ORD", 1>>)
    \/ ClearEmailLog

SpecLog == Init /\ [][NextLog]_vars

----------------------------------------------------------------------------
(* The steps of a purchase *)

\* the steps of a purchase in the order of the code: the search, the reset of
\* the cart with the add, the pricing, the payment, the inventory commit and
\* the notification
OrderSteps == <<"search", "cart", "pricing", "payment", "commit", "notify">>

\* how many steps of OrderSteps a call of completePurchase begins, from the
\* throws of its try block: a step is begun if no statement before it threw
completePurchaseSteps(stk, searchQuery, bookId, quantity, paymentMethod, r1, r2, clock) ==
    LET searchResults == searchBooks(searchQuery)
        added == addToCart(EmptyCart, stk, bookId, quantity)
        total == calculateTotal(added.out.ret)
        paymentResult == processPayment(total, paymentMethod, r1, r2, clock)
    IN  IF Len(searchResults) = 0 THEN 1
        ELSE IF added.out.threw THEN 2
        ELSE IF LeqZero(total) THEN 3
        ELSE IF paymentResult.threw \/ ~paymentResult.ret.success THEN 4
        ELSE 5

\* the same for completePurchaseWithExtras, whose sixth step is begun if a
\* customerEmail was given
completePurchaseWithExtrasSteps(stk, searchQuery, bookId, quantity, paymentMethod, options, r1, r2, clock) ==
    LET searchResults == searchBooks(searchQuery)
        added == addToCart(EmptyCart, stk, bookId, quantity)
        cart == added.out.ret
        pricing == calculateTotalWithExtras(JsObject(cart), options.couponCode,
                                            options.shippingMethod)
        paymentResult == processPayment(pricing.total, paymentMethod, r1, r2, clock)
        inventoryUpdate == updateInventory(stk, cart)
    IN  IF Len(searchResults) = 0 THEN 1
        ELSE IF added.out.threw THEN 2
        ELSE IF LeqZero(pricing.total) THEN 3
        ELSE IF paymentResult.threw \/ ~paymentResult.ret.success THEN 4
        ELSE IF inventoryUpdate.out.threw \/ Falsy(options.customerEmail) THEN 5
        ELSE 6

\* The orders whose steps are followed: the query that matches nothing with
\* an order that is good otherwise, and the matching query with a book in
\* stock, one out of stock and an unknown one, a quantity of 0, 1 or MaxQty,
\* either method and either draw
StepOrderArgs ==
    {<<JsStr(<<"z","z","z">>), 6, 1, "credit", <<50, 50>> >>}
    \cup {<<JsStr(<<"O","R","W","E","L","L">>), b, q, m, d>> :
            b \in {3, 6, 7}, q \in {0, 1, MaxQty}, m \in MethodArgs, d \in DrawArgs}

\* their options: no coupon, every address, and as shipping method a key of
\* the shipping table or the name of a property every object inherits
StepOptionArgs == {Options(JsNull, sh, e) : sh \in {"standard", "constructor"}, e \in EmailArgs}

\* The purchases of StepOrderArgs, made with a line in the shared cart or
\* without
NextSteps ==
    \/ AddToCart(2, 1)
    \/ \E a \in StepOrderArgs : CompletePurchase(a[1], a[2], a[3], a[4], a[5][1], a[5][2])
    \/ \E a \in StepOrderArgs, o \in StepOptionArgs :
          CompletePurchaseWithExtras(a[1], a[2], a[3], a[4], o, a[5][1], a[5][2])
    \/ ResetInventory
    \/ ClearEmailLog

SpecSteps == Init /\ [][NextSteps]_vars

----------------------------------------------------------------------------
(* The caller's copy of the cart *)

\* getCart(): the value handed out for the shared cart `cart`
getCart(cart) == handedOut(cart)

GetCart ==
    \E r \in {getCart(shoppingCart)} :
        /\ last' = [op |-> "getCart", out |-> Returned(r.value), pre |-> Pre,
                    shares |-> r.shares]
        /\ UNCHANGED <<stock, shoppingCart, emailLog, now, committed>>

\* the cart value the caller holds after the last call, with what it shares
\* with the shared cart: the value addToCart or getCart returned, the items
\* of an Order, or such a value after the caller changed it.  The items of an
\* Order are the value addToCart returned inside the purchase; by the time the
\* Order is returned shoppingCart has been bound to a new empty object (lines
\* 556 and 812), so they share nothing with it.
heldCart ==
    IF last.op \in {"addToCart", "getCart"} /\ ~last.out.threw
    THEN [held |-> TRUE, value |-> last.out.ret, shares |-> last.shares]
    ELSE IF last.op \in {"completePurchase", "completePurchaseWithExtras"}
            /\ last.out.ret.success
    THEN [held |-> TRUE, value |-> last.out.ret.items, shares |-> "nothing"]
    ELSE IF last.op = "changeReturned"
    THEN [held |-> TRUE, value |-> last.value, shares |-> last.shares]
    ELSE [held |-> FALSE, value |-> EmptyCart, shares |-> "nothing"]

\* cart c without its line k
WithoutLine(c, k) == [j \in DOMAIN c \ {k} |-> c[j]]

\* the caller assigns quantity to line bookId of the value it holds: the
\* shared cart changes with it if the line object is one of its own
SetReturnedQuantity(bookId, quantity) ==
    /\ heldCart.held
    /\ bookId \in DOMAIN heldCart.value
    /\ shoppingCart' = IF heldCart.shares \in {"object", "lines"}
                           /\ bookId \in DOMAIN shoppingCart
                        THEN [shoppingCart EXCEPT ![bookId].quantity = quantity]
                        ELSE shoppingCart
    /\ last' = [op |-> "changeReturned", pre |-> Pre,
                value |-> [heldCart.value EXCEPT ![bookId].quantity = quantity],
                shares |-> heldCart.shares]
    /\ UNCHANGED <<stock, emailLog, now, committed>>

\* the caller deletes line bookId of the value it holds: the shared cart
\* loses the line if the value is the cart object itself
DeleteReturnedLine(bookId) ==
    /\ heldCart.held
    /\ bookId \in DOMAIN heldCart.value
    /\ shoppingCart' = IF heldCart.shares = "object" /\ bookId \in DOMAIN shoppingCart
                        THEN WithoutLine(shoppingCart, bookId)
                        ELSE shoppingCart
    /\ last' = [op |-> "changeReturned", pre |-> Pre,
                value |-> WithoutLine(heldCart.value, bookId),
                shares |-> heldCart.shares]
    /\ UNCHANGED <<stock, emailLog, now, committed>>

\* the orders placed between the cart calls: book 6, accepted or rejected
CartOrderArgs ==
    {<<JsStr(<<"O","R","W","E","L","L">>), 6, q, "credit", d>> : q \in 1..MaxQty, d \in DrawArgs}

\* The cart calls, the purchases and a caller that changes what it was handed
NextCart ==
    \/ \E b \in {2, 6}, q \in 1..MaxQty : AddToCart(b, q)
    \/ GetCart
    \/ \E a \in CartOrderArgs : CompletePurchase(a[1], a[2], a[3], a[4], a[5][1], a[5][2])
    \/ \E a \in CartOrderArgs :
          CompletePurchaseWithExtras(a[1], a[2], a[3], a[4], NoOptions, a[5][1], a[5][2])
    \/ \E b \in {2, 6}, q \in {0, MaxQty + 1} : SetReturnedQuantity(b, q)
    \/ \E b \in {2, 6} : DeleteReturnedLine(b)
    \/ ResetCart
    \/ ResetInventory

SpecCart == Init /\ [][NextCart]_vars

----------------------------------------------------------------------------
(* The extended pricing called on its own *)

\* the most copies of one book in a cart object handed to the pricing
MaxCopies == 6

\* a cart object holding quantity copies of book id
OneLine(id, quantity) == JsObject([k \in {id} |-> HandLine(id, quantity)])

\* carts handed to the pricing: null, a number, the empty object, 1 to
\* MaxCopies copies of book 4, one copy of book 1, and a cart of two lines
PriceCartArgs ==
    {JsNull, JsNumber, JsObject(EmptyCart)}
    \cup {OneLine(4, q) : q \in 1..MaxCopies}
    \cup {OneLine(1, 1),
          JsObject([k \in {1, 4} |-> IF k = 1 THEN HandLine(1, 1) ELSE HandLine(4, 2)])}
\* every code of the coupon table, in either case, an unknown code and none
PriceCouponArgs ==
    CouponArgs \cup {JsStr(<<"F","L","A","T","5">>), JsStr(<<"f","r","e","e","s","h","i","p">>),
                     JsStr(<<"N","O","P","E">>)}
\* every key of the shipping table, two keys that are not in it, and the name
\* of a property every object inherits
PriceShippingArgs ==
    {"standard", "express", "overnight", "free", "invalid_method", "", "constructor"}

\* calculateTotalWithExtras(cart, couponCode, shippingMethod) called directly
CalculateTotalWithExtras(cart, couponCode, shippingMethod) ==
    /\ last' = [op |-> "calculateTotalWithExtras",
                out |-> Returned(calculateTotalWithExtras(cart, couponCode, shippingMethod)),
                pre |-> Pre,
                args |-> [cart |-> cart, couponCode |-> couponCode,
                          shippingMethod |-> shippingMethod]]
    /\ UNCHANGED <<stock, shoppingCart, emailLog, now, committed>>

\* codes handed to applyCoupon: those of the pricing, the empty string and a
\* code in mixed case
ApplyCouponArgs ==
    PriceCouponArgs \cup {JsStr(<<>>), JsStr(<<"S","a","v","e","2","0">>)}
\* subtotals in cents: nothing, the subtotals around the two minimums of the
\* coupon table, those of the test suite, and 186.85, a subtotal of
\* discountBelowTie
SubtotalArgs == {0, 1299, 1999, 2000, 3000, 4999, 5000, 10000, 18685}

\* applyCoupon(couponCode, subtotal) called directly
ApplyCoupon(couponCode, subtotal) ==
    /\ last' = [op |-> "applyCoupon",
                out |-> Returned(applyCoupon(couponCode, subtotal)),
                pre |-> Pre,
                args |-> [couponCode |-> couponCode, subtotal |-> subtotal]]
    /\ UNCHANGED <<stock, shoppingCart, emailLog, now, committed>>

NextPrice ==
    \/ Tick
    \/ \E c \in PriceCartArgs, cp \in PriceCouponArgs, sh \in PriceShippingArgs :
          CalculateTotalWithExtras(c, cp, sh)
    \/ \E cp \in ApplyCouponArgs, st \in SubtotalArgs : ApplyCoupon(cp, st)

SpecPrice == Init /\ [][NextPrice]_vars

----------------------------------------------------------------------------
(* The two pricings of the shared cart *)

\* calculateTotal(cart) called directly on a cart addToCart built
CalculateTotal(cart) ==
    /\ last' = [op |-> "calculateTotal", out |-> Returned(calculateTotal(cart)),
                pre |-> Pre, args |-> [cart |-> cart]]
    /\ UNCHANGED <<stock, shoppingCart, emailLog, now, committed>>

\* Carts of books 1, 2, 4 and 5 built call by call, one copy at a time or
\* MaxQty at once, and priced both ways, the extended pricing with every
\* coupon and shipping method of SpecPrice
NextTotal ==
    \/ \E b \in {1, 2, 4, 5}, q \in {1, MaxQty} : AddToCart(b, q)
    \/ CalculateTotal(shoppingCart)
    \/ \E cp \in PriceCouponArgs, sh \in PriceShippingArgs :
          CalculateTotalWithExtras(JsObject(shoppingCart), cp, sh)
    \/ ResetCart

SpecTotal == Init /\ [][NextTotal]_vars

----------------------------------------------------------------------------
(* Properties *)

Purchases == {"completePurchase", "completePurchaseWithExtras"}
\* the last call was a purchase and returned success: false / success: true
PurchaseFailed == last.op \in Purchases /\ ~last.out.ret.success
PurchaseSucceeded == last.op \in Purchases /\ last.out.ret.success

PaymentFailedError == <<"Payment processing failed. Please try again.">>

\* every line of cart c asks for no more than stock s holds
CartWithin(c, s) == \A k \in DOMAIN c : k \in BookIds /\ c[k].quantity <= s[k]

C2_UpdateInventoryAllOrNothing ==
    last.op = "updateInventory" =>
        LET cart == last.args.cart
            before == last.pre.stock
            bad == \E k \in DOMAIN cart : k \notin BookIds \/ cart[k].quantity > before[k]
        IN  IF bad
            THEN last.out.threw /\ stock = before
            ELSE /\ ~last.out.threw
                 /\ \A id \in BookIds :
                        stock[id] = before[id]
                                    - (IF id \in DOMAIN cart THEN cart[id].quantity ELSE 0)

\* a commit threw on a line although a line with a smaller key, visited
\* before it, would have passed
C2_Witness ==
    /\ last.op = "updateInventory"
    /\ last.out.threw
    /\ \E k, j \in DOMAIN last.args.cart :
          /\ k < j
          /\ k \in BookIds /\ last.args.cart[k].quantity <= last.pre.stock[k]
          /\ j \notin BookIds \/ last.args.cart[j].quantity > last.pre.stock[j]

\* C3: a failed purchase leaves the shared cart equal to the cart that existed
\* immediately before the call, whichever step failed.
C3_FailedPurchaseRestoresCart ==
    PurchaseFailed => shoppingCart = last.pre.cart

\* the add-to-cart step of a purchase failed, after the cart had been reset,
\* while the shared cart held a line
C3_Witness ==
    /\ PurchaseFailed
    /\ Len(last.out.ret.error) = 3 /\ last.out.ret.error[1] = "Only"
    /\ shoppingCart # EmptyCart

\* the call completePurchaseWithExtras(x) made in the current state
ExtrasCall(x, cart, stk, log, clock) ==
    completePurchaseWithExtras(cart, stk, log, x[1][1], x[1][2], x[1][3], x[1][4], x[2],
                               x[1][5][1], x[1][5][2], clock)

\* the order x reaches the payment step and the simulator rejects the charge
PaymentRejected(x, stk) ==
    /\ Len(searchBooks(x[1][1])) > 0
    /\ ~addToCart(EmptyCart, stk, x[1][2], x[1][3]).out.threw
    /\ x[1][4] \in validMethods
    /\ x[1][5][1] <= 20

\* C4: when the payment simulator rejects the charge inside
\* completePurchaseWithExtras, the call returns success = false with the
\* payment-failed error, no stock changes and the email log gains no entry,
\* whatever coupon and recipient address were supplied.
C4_RejectedPaymentNoStockNoEmail ==
    /\ \A x \in NotifyArgs :
          PaymentRejected(x, stock) =>
              \E r \in {ExtrasCall(x, shoppingCart, stock, emailLog, now)} :
                  /\ r.result.success = FALSE
                  /\ r.result.error = PaymentFailedError
                  /\ r.stock = stock
                  /\ r.log = emailLog
    /\ (last.op = "completePurchaseWithExtras" /\ ~last.out.ret.success
        /\ last.out.ret.error = PaymentFailedError)
           => stock = last.pre.stock /\ emailLog = last.pre.log

\* the last call was an order with the SAVE10 coupon and a valid address whose
\* charge was rejected, made when an earlier order had already been mailed
C4_Witness ==
    /\ last.op = "completePurchaseWithExtras" /\ ~last.out.ret.success
    /\ last.out.ret.error = PaymentFailedError
    /\ Len(emailLog) = 1
    /\ \E x \in NotifyArgs, clock \in 0..MaxClock :
          /\ ~Falsy(x[2].couponCode) /\ x[2].customerEmail = ValidEmail
          /\ PaymentRejected(x, last.pre.stock)
          /\ \E r \in {ExtrasCall(x, last.pre.cart, last.pre.stock, last.pre.log, clock)} :
                r.result = last.out.ret /\ r.stock = stock /\ r.log = emailLog

\* C5: in every reachable state every catalog item has stock >= 0.
C5_StockNeverNegative ==
    \A id \in BookIds : stock[id] >= 0

\* a direct commit of a cart took the last copies of an item
C5_Witness ==
    /\ last.op = "updateInventory" /\ ~last.out.threw
    /\ \E id \in DOMAIN last.args.cart : last.pre.stock[id] > 0 /\ stock[id] = 0

\* C6 as stated: in every reachable state every line of the shared cart has
\* 0 < quantity <= the live stock of its item.
C6_Original ==
    \A k \in DOMAIN shoppingCart :
        /\ shoppingCart[k].quantity > 0
        /\ k \in BookIds /\ shoppingCart[k].quantity <= stock[k]

\* C6: every line of the shared cart has quantity > 0, and every operation
\* other than a direct updateInventory keeps the cart within the live stock:
\* if every line was <= the live stock of its item before the call, it is
\* after the call.  (A direct updateInventory takes stock and leaves the cart
\* as it is, so the lines it has committed may exceed what is left.)
C6_CartWithinStockExceptAfterCommit ==
    /\ \A k \in DOMAIN shoppingCart : k \in BookIds /\ shoppingCart[k].quantity > 0
    /\ (last.op \notin {"init", "updateInventory"}
        /\ CartWithin(last.pre.cart, last.pre.stock))
           => CartWithin(shoppingCart, stock)

\* addToCart added copies to a line the cart already held, up to exactly the
\* live stock of the item
C6_Witness ==
    /\ last.op = "addToCart" /\ ~last.out.threw
    /\ last.args.bookId \in DOMAIN last.pre.cart
    /\ shoppingCart[last.args.bookId].quantity = stock[last.args.bookId]
    /\ CartWithin(last.pre.cart, last.pre.stock)

\* C7: a successful completePurchase or completePurchaseWithExtras for
\* (bookId, quantity) decreases the stock of bookId by exactly quantity,
\* leaves every other stock unchanged, and reports the new stock of bookId in
\* inventoryUpdated[bookId].
C7_SuccessfulPurchaseDecrementsStock ==
    /\ \A a \in PurchaseArgs :
          \E r \in {completePurchase(shoppingCart, stock, emailLog, a[1], a[2], a[3], a[4],
                                     a[5][1], a[5][2], now)} :
              r.result.success =>
                  /\ r.stock = [stock EXCEPT ![a[2]] = @ - a[3]]
                  /\ r.result.inventoryUpdated[a[2]] = r.stock[a[2]]
    /\ \A x \in ExtrasArgs :
          \E r \in {ExtrasCall(x, shoppingCart, stock, emailLog, now)} :
              r.result.success =>
                  /\ r.stock = [stock EXCEPT ![x[1][2]] = @ - x[1][3]]
                  /\ r.result.inventoryUpdated[x[1][2]] = r.stock[x[1][2]]

\* a purchase of several copies succeeded and the stock of the item, and of no
\* other, is lower than before by the quantity of the order
C7_Witness ==
    /\ PurchaseSucceeded
    /\ \E b \in DOMAIN last.out.ret.items :
          /\ last.out.ret.items[b].quantity > 1
          /\ stock = [last.pre.stock EXCEPT ![b] = @ - last.out.ret.items[b].quantity]
          /\ last.out.ret.inventoryUpdated[b] = stock[b]

\* C8: after every successful completePurchase or completePurchaseWithExtras
\* the shared cart is empty, whatever it held before the call.
C8_SuccessfulPurchaseClearsCart ==
    PurchaseSucceeded => shoppingCart = EmptyCart

\* a purchase succeeded that was started with lines in the shared cart
C8_Witness ==
    /\ PurchaseSucceeded
    /\ last.pre.cart # EmptyCart
    /\ shoppingCart = EmptyCart

\* the quantity the cart holds for bookId
InCart(cart, bookId) == IF bookId \in DOMAIN cart THEN cart[bookId].quantity ELSE 0

\* C9: addToCart(bookId, quantity) for an existing item and quantity > 0
\* succeeds if and only if the quantity already in the cart plus quantity is
\* <= the live stock of the item; on success the line's quantity is the old
\* quantity plus quantity and the other lines are as before, on rejection the
\* error carries the live stock of the item.
C9_AddToCartAgainstLiveStock ==
    (last.op = "addToCart" /\ last.args.bookId \in BookIds /\ last.args.quantity > 0) =>
        LET b == last.args.bookId
            old == InCart(last.pre.cart, b)
        IN  IF old + last.args.quantity <= last.pre.stock[b]
            THEN /\ ~last.out.threw
                 /\ DOMAIN shoppingCart = DOMAIN last.pre.cart \cup {b}
                 /\ shoppingCart[b].quantity = old + last.args.quantity
                 /\ \A k \in DOMAIN last.pre.cart \ {b} : shoppingCart[k] = last.pre.cart[k]
                 /\ last.out.ret = shoppingCart
            ELSE /\ last.out.threw
                 /\ last.out.error = <<"Only", last.pre.stock[b], "copies available">>

\* addToCart rejected a quantity that the stock alone would cover, because of
\* the copies the cart already held
C9_Witness ==
    /\ last.op = "addToCart" /\ last.out.threw
    /\ last.args.bookId \in DOMAIN last.pre.cart
    /\ last.args.quantity > 0
    /\ last.args.quantity <= last.pre.stock[last.args.bookId]
    /\ last.out.error = <<"Only", last.pre.stock[last.args.bookId], "copies available">>

\* C10: addToCart reports the first failing validation in the order: unknown
\* item id (even when the quantity is also <= 0), then quantity <= 0 (even
\* when the item has no stock), then insufficient stock, which is therefore
\* reported only for an existing item and a quantity > 0.
C10_AddToCartValidationOrder ==
    last.op = "addToCart" =>
        LET b == last.args.bookId
            q == last.args.quantity
        IN  /\ b \notin BookIds =>
                   last.out.threw /\ last.out.error = <<"Book with ID", b, "not found">>
            /\ (b \in BookIds /\ q <= 0) =>
                   last.out.threw /\ last.out.error = <<"Quantity must be greater than 0">>
            /\ (last.out.threw /\ last.out.error[1] = "Only") => b \in BookIds /\ q > 0

\* addToCart was called with an unknown id and quantity 0 and reported the id
C10_Witness ==
    /\ last.op = "addToCart"
    /\ last.args.bookId \notin BookIds /\ last.args.quantity <= 0
    /\ last.out.threw /\ last.out.error[1] = "Book with ID"

\* C11: once an item's stock is 0, every addToCart of it with quantity >= 1
\* fails reporting 0 copies available and every completePurchase of it fails;
\* the stock of an item rises only by resetInventory.
C11_SoldOutUntilReset ==
    /\ \A b \in BookIds :
          stock[b] = 0 =>
              /\ \A q \in 1..MaxQty :
                    \E r \in {addToCart(shoppingCart, stock, b, q)} :
                        /\ r.out.threw
                        /\ r.out.error = <<"Only", 0, "copies available">>
                        /\ r.cart = shoppingCart
              /\ \A a \in {x \in PurchaseArgs : x[2] = b} :
                    ~completePurchase(shoppingCart, stock, emailLog, a[1], a[2], a[3], a[4],
                                      a[5][1], a[5][2], now).result.success
    /\ \A b \in BookIds :
          stock[b] > last.pre.stock[b] => last.op = "resetInventory"

\* an item seeded with copies was sold out, and a later purchase of it was
\* turned down with 0 copies available
C11_Witness ==
    /\ PurchaseFailed /\ last.op = "completePurchase"
    /\ last.out.ret.error = <<"Only", 0, "copies available">>
    /\ \E b \in BookIds :
          SeedStock[b] > 0 /\ last.pre.stock[b] = 0 /\ stock[b] = 0

\* the message of the first step of the order a = <<query, bookId, quantity,
\* method, draws>> that fails when it is placed with stock stk, <<>> if none
FirstFailure(a, stk) ==
    IF Len(searchBooks(a[1])) = 0
    THEN <<"No books found matching your search">>
    ELSE IF addToCart(EmptyCart, stk, a[2], a[3]).out.threw
    THEN addToCart(EmptyCart, stk, a[2], a[3]).out.error
    ELSE IF a[4] \notin validMethods
    THEN <<"Invalid payment method">>
    ELSE IF a[5][1] <= 20
    THEN PaymentFailedError
    ELSE <<>>

\* the uniform failure result carrying the message error
FailureResult(error) == [success |-> FALSE, error |-> error, message |-> "Purchase failed"]

RejectedRecipient(e) == ~Falsy(e) /\ ~includes(e.v, <<"@">>)

\* C13: when completePurchaseWithExtras is given a customerEmail that fails
\* recipient validation and every other step succeeds, the result has
\* success = true and emailSent = false, the stock decrement is kept, the cart
\* is cleared and the email log gains no entry.
C13_InvalidEmailKeepsPurchase ==
    \A x \in NotifyArgs :
        (RejectedRecipient(x[2].customerEmail) /\ FirstFailure(x[1], stock) = <<>>) =>
            \E r \in {ExtrasCall(x, shoppingCart, stock, emailLog, now)} :
                /\ r.result.success
                /\ r.result.emailSent = FALSE
                /\ r.stock = [stock EXCEPT ![x[1][2]] = @ - x[1][3]]
                /\ r.cart = EmptyCart
                /\ r.log = emailLog

\* an order with the address "ab" succeeded after an earlier order had been
\* mailed: the stock went down and the log is the one of before
C13_Witness ==
    /\ last.op = "completePurchaseWithExtras" /\ last.out.ret.success
    /\ last.out.ret.emailSent = FALSE
    /\ Len(emailLog) = 1 /\ emailLog = last.pre.log
    /\ stock # last.pre.stock
    /\ \E x \in NotifyArgs, clock \in 0..MaxClock :
          /\ RejectedRecipient(x[2].customerEmail)
          /\ \E r \in {ExtrasCall(x, last.pre.cart, last.pre.stock, last.pre.log, clock)} :
                r.result = last.out.ret /\ r.stock = stock /\ r.log = emailLog

\* C14: any two accepted processPayment calls return different transaction
\* ids, whatever the clock and the random draws, also when both calls fall
\* into the same clock instant and the draws repeat.  Stated for a call and
\* the call made just before it.
C14_TransactionIdsDistinct ==
    (/\ last.op = "processPayment"
     /\ ~last.out.threw /\ last.out.ret.success
     /\ ~last.before.threw /\ last.before.ret.success)
        => last.out.ret.transactionId # last.before.ret.transactionId

\* C15: the records of the email log have pairwise distinct ids after any
\* sequence of successful sendEmailNotification calls, also when two sends
\* fall into the same clock instant.
C15_EmailIdsDistinct ==
    \A i, j \in 1..Len(emailLog) :
        i # j => emailLog[i].id # emailLog[j].id

\* C16: sendEmailNotification with a missing recipient or one without "@"
\* returns sent = false and leaves the email log unchanged; with a recipient
\* containing "@" it returns sent = true, appends exactly one record at the
\* end of the log carrying that recipient, subject and payload, and returns
\* the id of that record.
C16_SendEmailNotification ==
    last.op = "sendEmailNotification" =>
        LET e == last.args.recipient
            n == Len(last.pre.log)
        IN  IF Falsy(e) \/ \A i \in 1..Len(e.v) : e.v[i] # "@"
            THEN /\ ~last.out.threw
                 /\ last.out.ret.sent = FALSE
                 /\ emailLog = last.pre.log
            ELSE /\ ~last.out.threw
                 /\ last.out.ret.sent = TRUE
                 /\ Len(emailLog) = n + 1
                 /\ SubSeq(emailLog, 1, n) = last.pre.log
                 /\ emailLog[n + 1].to = e
                 /\ emailLog[n + 1].subject = last.args.subject
                 /\ emailLog[n + 1].orderDetails = last.args.orderDetails
                 /\ last.out.ret.emailId = emailLog[n + 1].id

\* a second notification was sent: the log holds the earlier record followed
\* by the new one
C16_Witness ==
    /\ last.op = "sendEmailNotification"
    /\ last.out.ret.sent = TRUE
    /\ Len(last.pre.log) = 1 /\ Len(emailLog) = 2
    /\ emailLog[1] = last.pre.log[1]
    /\ emailLog[2].subject # emailLog[1].subject

\* C17: processPayment(amount, method) fails with "Invalid cart total"
\* whenever amount <= 0, whatever the method; fails with "Invalid payment
\* method" whenever amount > 0 and the method is not credit, debit or paypal;
\* otherwise returns accepted with a transaction id or rejected with none; in
\* no case does it change the cart, the stock or the email log.
C17_ProcessPayment ==
    last.op = "processPayment" =>
        /\ shoppingCart = last.pre.cart
        /\ stock = last.pre.stock
        /\ emailLog = last.pre.log
        /\ IF last.args.cartTotal <= 0
           THEN last.out = Threw(<<"Invalid cart total">>)
           ELSE IF last.args.paymentMethod \notin {"credit", "debit", "paypal"}
           THEN last.out = Threw(<<"Invalid payment method">>)
           ELSE /\ ~last.out.threw
                /\ \/ /\ last.out.ret.success = TRUE
                      /\ last.out.ret.transactionId[1] = "TXN"
                   \/ /\ last.out.ret.success = FALSE
                      /\ last.out.ret.transactionId = <<"null">>

\* a non-positive amount was offered with an unsupported method, while the
\* cart, the stock and the email log were not in their initial state
C17_Witness ==
    /\ last.op = "processPayment"
    /\ last.args.cartTotal <= 0 /\ last.args.paymentMethod = "bitcoin"
    /\ last.out = Threw(<<"Invalid cart total">>)
    /\ shoppingCart # EmptyCart /\ stock # SeedStock /\ emailLog # <<>>

\* the last call was calculateTotalWithExtras on a cart object with lines
PricedLines ==
    /\ last.op = "calculateTotalWithExtras"
    /\ last.args.cart.t = "object"
    /\ last.args.cart.v # EmptyCart

\* num / den rounded half-up to a whole number of cents
RoundHalfUp(num, den) == (2 * num + den) \div (2 * den)

\* C18: calculateTotalWithExtras returns a breakdown whose subtotal, discount,
\* tax, shipping and total are all 0, without raising an error, for every
\* empty cart and every invalid cart (null or not an object), whatever the
\* coupon code and the shipping method.
C18_EmptyCartAllZero ==
    (/\ last.op = "calculateTotalWithExtras"
     /\ last.args.cart.t = "object" => last.args.cart.v = EmptyCart)
        => /\ ~last.out.threw
           /\ last.out.ret.subtotal = 0
           /\ last.out.ret.discount = 0
           /\ last.out.ret.tax = 0
           /\ last.out.ret.shipping = 0
           /\ last.out.ret.total = 0

\* C19: for every non-empty cart, coupon code and shipping key of the table,
\* subtotal = the sum of price * quantity; discount = the coupon's discount if
\* the coupon is valid, else 0; tax = (subtotal - discount) * 0.10 rounded
\* half-up to the cent; total = (subtotal - discount) + tax + shipping cost.
\* One copy at 12.99 with SAVE10 and standard shipping gives discount 1.30
\* and total 18.85.
C19_BreakdownRoundedHalfUp ==
    (PricedLines /\ last.out.ret.shipping # undefined) =>
        LET r == last.out.ret
            lines == last.args.cart.v
            RECURSIVE Sum(_)
            Sum(keys) == IF keys = {} THEN 0
                         ELSE LET k == CHOOSE x \in keys : TRUE
                              IN  lines[k].book.price * lines[k].quantity + Sum(keys \ {k})
            coupon == applyCoupon(last.args.couponCode, r.subtotal)
        IN  /\ r.subtotal = Sum(DOMAIN lines)
            /\ r.discount = IF coupon.valid THEN coupon.discount ELSE 0
            /\ r.tax = RoundHalfUp(r.subtotal - r.discount, 10)
            /\ r.total = (r.subtotal - r.discount) + r.tax + r.shipping
            /\ (/\ last.args.cart = OneLine(1, 1)
                /\ last.args.couponCode = JsStr(<<"S","A","V","E","1","0">>)
                /\ last.args.shippingMethod = "standard")
                   => r.discount = 130 /\ r.total = 1885

\* C20: in calculateTotalWithExtras the shipping cost is 0 whenever a valid
\* free-shipping coupon is applied, whatever the shipping key; otherwise it is
\* the table cost of the selected key, and a key that is not in the shipping
\* table yields the cost and the display name of "standard".  A coupon that is
\* not valid never waives shipping.
C20_ShippingCost ==
    PricedLines =>
        LET r == last.out.ret
            key == last.args.shippingMethod
            waived == /\ r.couponApplied
                      /\ toUpperCase(last.args.couponCode.v) = <<"F","R","E","E","S","H","I","P">>
            inTable == key \in {"standard", "express", "overnight", "free"}
        IN  /\ waived => r.shipping = 0
            /\ (~waived /\ inTable) => r.shipping = shippingOptions[key].cost
            /\ inTable => r.shippingMethod = shippingOptions[key].name
            /\ ~inTable => r.shippingMethod = shippingOptions.standard.name
            /\ (~waived /\ ~inTable) => r.shipping = shippingOptions.standard.cost

\* the coupons of the table whose code equals the given one up to case
CouponsNamed(couponCode) ==
    IF Falsy(couponCode) THEN {}
    ELSE {c \in couponDatabase : toLowerCase(c.code) = toLowerCase(couponCode.v)}

\* C21: applyCoupon(code, subtotal) returns valid = false with discount 0 when
\* no code is given, when the code (compared without regard to case) is not
\* in the coupon table, or when the subtotal is below the coupon's minimum;
\* otherwise valid = true with discount = subtotal * value / 100 rounded
\* half-up to the cent for a percentage coupon, value for a fixed coupon and 0
\* for a free-shipping coupon, and freeShipping is true exactly for a
\* free-shipping coupon.  A subtotal equal to the minimum is accepted.
C21_ApplyCoupon ==
    last.op = "applyCoupon" =>
        LET r == last.out.ret
            subtotal == last.args.subtotal
            named == CouponsNamed(last.args.couponCode)
        IN  /\ ~last.out.threw
            /\ named = {} => (~r.valid /\ r.discount = 0)
            /\ \A c \in named :
                  /\ subtotal < c.minPurchase => (~r.valid /\ r.discount = 0)
                  /\ subtotal >= c.minPurchase =>
                        /\ r.valid
                        /\ c.type = "percentage" =>
                              r.discount = RoundHalfUp(subtotal * c.value, 100)
                        /\ c.type = "fixed" => r.discount = c.value
                        /\ c.type = "free_shipping" => r.discount = 0
                        /\ r.freeShipping <=> (c.type = "free_shipping")

\* C21 with the percentage discount as toFixed(2) computes it on the
\* floating-point product
C21_ApplyCouponToFixed ==
    last.op = "applyCoupon" =>
        LET r == last.out.ret
            subtotal == last.args.subtotal
            named == CouponsNamed(last.args.couponCode)
        IN  /\ ~last.out.threw
            /\ named = {} => (~r.valid /\ r.discount = 0)
            /\ \A c \in named :
                  /\ subtotal < c.minPurchase => (~r.valid /\ r.discount = 0)
                  /\ subtotal >= c.minPurchase =>
                        /\ r.valid
                        /\ c.type = "percentage" =>
                              /\ r.discount \in {RoundHalfUp(subtotal * c.value, 100) - 1,
                                                  RoundHalfUp(subtotal * c.value, 100)}
                              /\ subtotal \notin discountBelowTie =>
                                    r.discount = RoundHalfUp(subtotal * c.value, 100)
                        /\ c.type = "fixed" => r.discount = c.value
                        /\ c.type = "free_shipping" => r.discount = 0
                        /\ r.freeShipping <=> (c.type = "free_shipping")

\* the order x names a coupon that applyCoupon turns down: a code that is not
\* in the coupon table, or one whose minimum the price of the requested line
\* does not reach
CouponFails(x) ==
    /\ ~Falsy(x[2].couponCode)
    /\ x[1][2] \in BookIds
    /\ \A c \in CouponsNamed(x[2].couponCode) :
          find(x[1][2]).price * x[1][3] < c.minPurchase

\* the message applyCoupon gives for the coupon of such an order
CouponFailureMessage(x) ==
    IF CouponsNamed(x[2].couponCode) = {}
    THEN <<"Invalid coupon code">>
    ELSE <<"Minimum purchase of",
           (CHOOSE c \in CouponsNamed(x[2].couponCode) : TRUE).minPurchase, "required">>

\* the order x without its coupon
WithoutCoupon(x) == <<x[1], [x[2] EXCEPT !.couponCode = JsNull]>>

\* C22: a coupon failure never fails a purchase: completePurchaseWithExtras
\* called with an unknown coupon code, or with a coupon whose minimum is not
\* met, ends as the same call without a coupon does (same success or the same
\* failure, same stock, same cart, same pricing and total, an email logged in
\* the same cases), except that the pricing carries the message of the coupon
\* failure, with couponApplied false.
C22_CouponFailureIsSoft ==
    \A x \in CouponOrderArgs :
        CouponFails(x) =>
            \E r \in {ExtrasCall(x, shoppingCart, stock, emailLog, now)},
               r0 \in {ExtrasCall(WithoutCoupon(x), shoppingCart, stock, emailLog, now)} :
                /\ r.result.success = r0.result.success
                /\ r.stock = r0.stock
                /\ r.cart = r0.cart
                /\ Len(r.log) = Len(r0.log)
                /\ ~r.result.success => (r.result = r0.result /\ r.log = r0.log)
                /\ r.result.success =>
                      /\ ~r.result.pricing.couponApplied
                      /\ r.result.pricing.total = r0.result.pricing.total
                      /\ r.result = [r0.result EXCEPT
                                       !.pricing.couponMessage = CouponFailureMessage(x)]
                      /\ Len(r.log) > Len(emailLog) =>
                            r.log[Len(r.log)] =
                                [r0.log[Len(r0.log)] EXCEPT
                                    !.orderDetails.pricing.couponMessage =
                                        CouponFailureMessage(x)]

\* an order with the SAVE20 coupon, whose minimum of 50.00 it does not reach,
\* succeeded: stock went down and the confirmation was logged
C22_Witness ==
    /\ last.op = "completePurchaseWithExtras" /\ last.out.ret.success
    /\ ~last.out.ret.pricing.couponApplied
    /\ last.out.ret.pricing.couponMessage = <<"Minimum purchase of", 5000, "required">>
    /\ stock # last.pre.stock
    /\ Len(emailLog) = Len(last.pre.log) + 1

\* the carts a caller commits: those of CartArgs and the shared cart
CommitArgs == CartArgs \cup {shoppingCart}

\* the lines of cart c, all of catalog items, that ask for more than stock s
ShortLines(c, s) == {k \in DOMAIN c : c[k].quantity > s[k]}

\* the error updateInventory raises for line k of cart c on stock s
InsufficientStockError(c, s, k) ==
    <<"Insufficient stock for", find(k).title, "Available:", s[k], "Requested:", c[k].quantity>>

\* C23 as stated: updateInventory validates against the live stock, not the
\* stock copied into the line, so that the second of two commits of the same
\* cart snapshot fails with InsufficientStock and changes no stock.
C23_Original ==
    \A c \in CommitArgs :
        (c # EmptyCart /\ DOMAIN c \subseteq BookIds) =>
            \E r1 \in {updateInventory(stock, c)} :
                ~r1.out.threw =>
                    \E r2 \in {updateInventory(r1.stock, c)} :
                        r2.out.threw /\ r2.stock = r1.stock

\* C23: updateInventory validates each line against the live stock at commit
\* time, not the stock copied into the line: a commit of a cart of catalog
\* items fails with InsufficientStock naming the first line whose quantity
\* exceeds the live stock, and changes no stock, whatever stock the line
\* carries; the second of two commits of the same snapshot fails in this way
\* exactly when the first left fewer copies than a line asks for, and
\* otherwise takes the copies again.
C23_CommitAgainstLiveStock ==
    /\ (last.op = "updateInventory" /\ DOMAIN last.args.cart \subseteq BookIds
         /\ ShortLines(last.args.cart, last.pre.stock) # {}) =>
            /\ last.out.threw
            /\ last.out.error =
                  InsufficientStockError(last.args.cart, last.pre.stock,
                                         Min(ShortLines(last.args.cart, last.pre.stock)))
            /\ stock = last.pre.stock
    /\ \A c \in CommitArgs :
          DOMAIN c \subseteq BookIds =>
              \E r1 \in {updateInventory(stock, c)} :
                  ~r1.out.threw =>
                      \E r2 \in {updateInventory(r1.stock, c)} :
                          IF ShortLines(c, r1.stock) # {}
                          THEN /\ r2.out.threw
                               /\ r2.out.error =
                                     InsufficientStockError(c, r1.stock,
                                                            Min(ShortLines(c, r1.stock)))
                               /\ r2.stock = r1.stock
                          ELSE /\ ~r2.out.threw
                               /\ r2.stock = applyUpdates(r1.stock, c)

\* a commit failed on a line whose copied stock covers its quantity, after an
\* earlier commit had taken the copies: the stock is as before the call
C23_Witness ==
    /\ last.op = "updateInventory" /\ last.out.threw
    /\ DOMAIN last.args.cart \subseteq BookIds
    /\ stock = last.pre.stock
    /\ \E k \in DOMAIN last.args.cart :
          /\ last.args.cart[k].book.stock >= last.args.cart[k].quantity
          /\ last.args.cart[k].quantity > last.pre.stock[k]
          /\ last.out.error = InsufficientStockError(last.args.cart, last.pre.stock, k)

\* C24: the cart value returned by addToCart and by getCart, and the items of
\* an Order, share no mutable state with the shared cart: when the caller
\* changes a quantity or deletes a line in the value it was handed, the
\* shared cart, which is what later addToCart, getCart and purchase calls
\* read, stays as it was.
C24_ReturnedCartIsDetached ==
    /\ last.op = "changeReturned" => shoppingCart = last.pre.cart
    /\ (last.op \in {"addToCart", "getCart"} /\ ~last.out.threw) =>
           last.out.ret = shoppingCart

\* the caller changed the value addToCart or getCart handed out while the
\* shared cart held lines: the two now differ
C24_Witness ==
    /\ last.op = "changeReturned"
    /\ shoppingCart # EmptyCart
    /\ shoppingCart = last.pre.cart
    /\ last.value # shoppingCart

\* cart c names catalog items only and asks for no more than stock s holds
Fits(c, s) == DOMAIN c \subseteq BookIds /\ ShortLines(c, s) = {}

\* the copies of item id that cart c asks for
Asked(c, id) == IF id \in DOMAIN c THEN c[id].quantity ELSE 0

\* carts c1 and c2 together ask for no more than stock s holds
FitTogether(c1, c2, s) == \A id \in BookIds : Asked(c1, id) + Asked(c2, id) <= s[id]

\* C25: the validate phase and the apply phase of updateInventory are one
\* indivisible step with respect to every other operation on the catalog: a
\* commit that succeeds subtracts from the very stock it validated against,
\* and of two commits of carts that each fit the stock alone but not
\* together, made one after the other in either order, the first succeeds
\* and the second fails, leaving the stock the first one left.
C25_CommitIsIndivisible ==
    /\ (last.op = "updateInventory" /\ ~last.out.threw) =>
           /\ Fits(last.args.cart, last.pre.stock)
           /\ stock = applyUpdates(last.pre.stock, last.args.cart)
    /\ \A c1 \in CartArgs, c2 \in CommitArgs :
          (Fits(c1, stock) /\ Fits(c2, stock) /\ ~FitTogether(c1, c2, stock)) =>
              /\ \E r1 \in {updateInventory(stock, c1)} :
                    \E r2 \in {updateInventory(r1.stock, c2)} :
                        ~r1.out.threw /\ r2.out.threw /\ r2.stock = r1.stock
              /\ \E r2 \in {updateInventory(stock, c2)} :
                    \E r1 \in {updateInventory(r2.stock, c1)} :
                        ~r2.out.threw /\ r1.out.threw /\ r1.stock = r2.stock

\* a commit failed on a cart that fitted the seeded stock, because an earlier
\* commit of another cart that fitted it too had taken the copies
C25_Witness ==
    /\ last.op = "updateInventory" /\ last.out.threw
    /\ stock = last.pre.stock
    /\ Fits(last.args.cart, SeedStock)
    /\ \E c1 \in CartArgs :
          /\ c1 # last.args.cart
          /\ Fits(c1, SeedStock)
          /\ ~FitTogether(c1, last.args.cart, SeedStock)
          /\ last.pre.stock = applyUpdates(SeedStock, c1)

\* the steps begun by the order a of StepOrderArgs with options o, or with
\* completePurchase if plain
StepsBegun(a, o, plain) ==
    IF plain
    THEN completePurchaseSteps(stock, a[1], a[2], a[3], a[4], a[5][1], a[5][2], now)
    ELSE completePurchaseWithExtrasSteps(stock, a[1], a[2], a[3], a[4], o,
                                         a[5][1], a[5][2], now)

\* the outcome of that order
StepsOutcome(a, o, plain) ==
    IF plain
    THEN completePurchase(shoppingCart, stock, emailLog, a[1], a[2], a[3], a[4],
                          a[5][1], a[5][2], now)
    ELSE ExtrasCall(<<a, o>>, shoppingCart, stock, emailLog, now)

\* the total that order is charged, once its line is in the cart
StepsTotal(a, o, plain) ==
    LET cart == addToCart(EmptyCart, stock, a[2], a[3]).out.ret
    IN  IF plain THEN calculateTotal(cart)
        ELSE calculateTotalWithExtras(JsObject(cart), o.couponCode, o.shippingMethod).total

\* the step order for the order a with options o
StepOrderHolds(a, o, plain) ==
    \E n \in {StepsBegun(a, o, plain)}, r \in {StepsOutcome(a, o, plain)} :
        \* zero search results: nothing after the search runs
        /\ Len(searchBooks(a[1])) = 0 =>
              n = 1 /\ r.cart = shoppingCart /\ r.stock = stock /\ r.log = emailLog
        \* payment only after the add succeeded and with a total > 0
        /\ n >= 4 =>
              /\ ~addToCart(EmptyCart, stock, a[2], a[3]).out.threw
              /\ StepsTotal(a, o, plain) # NaN
              /\ StepsTotal(a, o, plain) > 0
        \* stock decremented only after the payment was accepted
        /\ r.stock # stock =>
              /\ n >= 5
              /\ a[4] \in validMethods /\ a[5][1] > 20
              /\ r.result.success
        \* an email logged only after the stock was decremented
        /\ r.log # emailLog => (n = 6 /\ r.stock # stock)
        \* success only if every step before the notification succeeded
        /\ r.result.success => (n >= 5 /\ r.stock # stock)
        /\ n < 5 => (~r.result.success /\ r.stock = stock /\ r.log = emailLog)

\* C26: within one purchase attempt the steps run in the order search, cart
\* reset and add, pricing, payment, inventory commit, notification, and a
\* step runs only if every earlier step succeeded: with zero search results
\* the cart is not reset and no payment is attempted; payment is attempted
\* only after the add succeeded and the total is > 0; stock is decremented
\* only after the payment was accepted; an email is logged only after the
\* stock was decremented.
C26_StepOrder ==
    \A a \in StepOrderArgs :
        /\ StepOrderHolds(a, NoOptions, TRUE)
        /\ \A o \in StepOptionArgs : StepOrderHolds(a, o, FALSE)

\* C26 for the orders whose shipping method is a key of the shipping table
C26_StepOrderTableKeys ==
    \A a \in StepOrderArgs :
        /\ StepOrderHolds(a, NoOptions, TRUE)
        /\ \A o \in StepOptionArgs :
              o.shippingMethod = "standard" => StepOrderHolds(a, o, FALSE)

\* the purchase with options o succeeded and o carries an address with "@"
MailDue(r, o) ==
    /\ r.result.success
    /\ ~Falsy(o.customerEmail)
    /\ includes(o.customerEmail.v, <<"@">>)

\* C27: a call of completePurchaseWithExtras adds exactly one record to the
\* email log if and only if the purchase succeeds and a customerEmail
\* containing "@" was supplied; in every other case (failure at any step, no
\* customerEmail, invalid customerEmail) the email log is unchanged.
\* completePurchase never changes the email log.
C27_EmailLoggedIffSuccessAndAddress ==
    /\ \A a \in StepOrderArgs, o \in StepOptionArgs :
          \E r \in {ExtrasCall(<<a, o>>, shoppingCart, stock, emailLog, now)} :
              IF MailDue(r, o)
              THEN /\ Len(r.log) = Len(emailLog) + 1
                   /\ SubSeq(r.log, 1, Len(emailLog)) = emailLog
                   /\ r.log[Len(r.log)].to = o.customerEmail
                   /\ r.result.emailSent
              ELSE r.log = emailLog
    /\ \A a \in StepOrderArgs :
          \E r \in {completePurchase(shoppingCart, stock, emailLog, a[1], a[2], a[3], a[4],
                                     a[5][1], a[5][2], now)} :
              r.log = emailLog
    /\ last.op = "completePurchase" => emailLog = last.pre.log
    /\ last.op = "completePurchaseWithExtras" =>
          \/ emailLog = last.pre.log
          \/ /\ last.out.ret.success /\ last.out.ret.emailSent
             /\ Len(emailLog) = Len(last.pre.log) + 1
             /\ SubSeq(emailLog, 1, Len(last.pre.log)) = last.pre.log

\* an order with the address "a@b" succeeded and its confirmation is the one
\* record of the log
C27_Witness ==
    /\ last.op = "completePurchaseWithExtras" /\ last.out.ret.success
    /\ last.out.ret.emailSent
    /\ last.pre.log = <<>>
    /\ Len(emailLog) = 1
    /\ emailLog[1].to = ValidEmail
    /\ emailLog[1].id = last.out.ret.emailId

\* sequence s is a prefix of sequence t
IsPrefix(s, t) == Len(s) <= Len(t) /\ SubSeq(t, 1, Len(s)) = s

\* C28: the email log is append-only: across every operation other than
\* clearEmailLog the log before is a prefix of the log after, and no record
\* already in the log changes any field, including through the values
\* getEmailLog returned and through the payload object the caller passed to
\* sendEmailNotification.
C28_EmailLogAppendOnly ==
    last.op \notin {"init", "clearEmailLog"} => IsPrefix(last.pre.log, emailLog)

\* C28 for the calls of the module alone, leaving aside what a caller does
\* to the objects it passed or was handed
C28_AppendOnlyByCalls ==
    last.op \notin {"init", "clearEmailLog", "changeReturnedRecord", "changePayload"}
        => IsPrefix(last.pre.log, emailLog)

\* C29: a call of addToCart that fails (unknown book, quantity <= 0, or more
\* copies than the stock holds) leaves the shared cart exactly as it was
\* before the call, and no call of addToCart, successful or not, changes any
\* catalog stock or the email log.
C29_AddToCartFrame ==
    /\ last.op = "addToCart" =>
          /\ stock = last.pre.stock
          /\ emailLog = last.pre.log
          /\ last.out.threw => shoppingCart = last.pre.cart
    /\ \A b \in AddArgs, q \in QuantityArgs :
          \E r \in {addToCart(shoppingCart, stock, b, q)} :
              LET inCart == IF b \in DOMAIN shoppingCart THEN shoppingCart[b].quantity ELSE 0
                  fails == b \notin BookIds \/ q <= 0 \/ inCart + q > stock[b]
              IN  /\ r.out.threw <=> fails
                  /\ fails => r.cart = shoppingCart

\* a call was turned down for lack of stock while the cart held a line, the
\* log a record, and a commit had taken copies
C29_Witness ==
    /\ last.op = "addToCart" /\ last.out.threw
    /\ last.out.error = <<"Only", stock[last.args.bookId], "copies available">>
    /\ shoppingCart # EmptyCart
    /\ shoppingCart = last.pre.cart
    /\ emailLog # <<>>
    /\ stock # SeedStock

\* the cart of the single line bookId x quantity, built on stock s
SingleLine(s, bookId, quantity) ==
    [k \in {bookId} |-> [book |-> [id |-> bookId, price |-> find(bookId).price,
                                   stock |-> s[bookId]],
                         quantity |-> quantity]]

\* the outcome r of an order of quantity copies of bookId concerns that line
\* alone
BuysOnlyRequested(r, bookId, quantity) ==
    r.result.success =>
        /\ r.result.items = SingleLine(stock, bookId, quantity)
        /\ r.stock = [stock EXCEPT ![bookId] = @ - quantity]
        /\ DOMAIN r.result.inventoryUpdated = {bookId}
        /\ r.cart = EmptyCart

\* C30: a purchase buys only the single requested line: the cart that is
\* priced, charged and committed by completePurchase or
\* completePurchaseWithExtras holds exactly one line, bookId with the
\* requested quantity, so lines that were in the shared cart before the call
\* are never charged and never decrement stock, and on success they are
\* discarded rather than kept.
C30_PurchaseBuysOnlyRequestedLine ==
    /\ \A a \in StepOrderArgs :
          \E r \in {completePurchase(shoppingCart, stock, emailLog, a[1], a[2], a[3], a[4],
                                     a[5][1], a[5][2], now)} :
              /\ BuysOnlyRequested(r, a[2], a[3])
              /\ r.result.success =>
                    r.result.total = calculateTotal(SingleLine(stock, a[2], a[3]))
    /\ \A a \in StepOrderArgs, o \in StepOptionArgs :
          \E r \in {ExtrasCall(<<a, o>>, shoppingCart, stock, emailLog, now)} :
              /\ BuysOnlyRequested(r, a[2], a[3])
              /\ r.result.success =>
                    r.result.pricing.subtotal = find(a[2]).price * a[3]
    /\ PurchaseSucceeded =>
          /\ shoppingCart = EmptyCart
          /\ \E b \in BookIds :
                /\ DOMAIN last.out.ret.items = {b}
                /\ stock = [last.pre.stock EXCEPT ![b] = @ - last.out.ret.items[b].quantity]

\* an order of book 6 succeeded while the shared cart held a line of book 2:
\* the stock of book 2 is as before and the line is gone
C30_Witness ==
    /\ PurchaseSucceeded
    /\ 2 \in DOMAIN last.pre.cart
    /\ DOMAIN last.out.ret.items = {6}
    /\ stock[2] = last.pre.stock[2]
    /\ stock[6] < last.pre.stock[6]
    /\ shoppingCart = EmptyCart

\* the calls that may change stock
StockWriters == Purchases \cup {"updateInventory", "resetInventory"}

\* C31: stock is conserved: since the stock was last seeded (at start or by
\* resetInventory), for every item the current stock plus the quantities of
\* that item in all successful purchases and all successful direct
\* updateInventory calls equals the item's seed stock; no other operation,
\* and no purchase or commit that fails, changes stock.
C31_StockConserved ==
    /\ \A id \in BookIds : stock[id] + committed[id] = SeedStock[id]
    /\ (last.op # "init" /\ last.op \notin StockWriters) => stock = last.pre.stock
    /\ PurchaseFailed => stock = last.pre.stock
    /\ (last.op = "updateInventory" /\ last.out.threw) => stock = last.pre.stock

\* a direct commit succeeded after earlier purchases or commits had already
\* taken copies of the same item
C31_Witness ==
    /\ last.op = "updateInventory" /\ ~last.out.threw
    /\ \E id \in DOMAIN last.args.cart :
          /\ id \in BookIds
          /\ last.args.cart[id].quantity > 0
          /\ committed[id] > last.args.cart[id].quantity
          /\ stock[id] = SeedStock[id] - committed[id]

\* C32: for every cart built by addToCart, calculateTotal(cart) is
\* subtotal * 1.10 rounded half-up to the cent and equals the total of
\* calculateTotalWithExtras(cart, no coupon, "free"): the basic pricing is the
\* extended one with no discount and no shipping cost.  For one copy each of
\* the books at 12.99 and 14.99 both give 30.78.
C32_BasicIsExtendedWithoutExtras ==
    (last.op = "calculateTotal" /\ last.args.cart # EmptyCart) =>
        LET cart == last.args.cart
            extended == calculateTotalWithExtras(JsObject(cart), JsNull, "free")
        IN  /\ last.out.ret = RoundHalfUp(110 * extended.subtotal, 100)
            /\ last.out.ret = extended.total
            /\ (DOMAIN cart = {1, 2} /\ cart[1].quantity = 1 /\ cart[2].quantity = 1) =>
                   (last.out.ret = 3078 /\ extended.total = 3078)

\* C32 with each total allowed to be one cent below the half-up value on the
\* carts where its floating-point sum lies just below a tie
C32_EqualButForTies ==
    (last.op = "calculateTotal" /\ last.args.cart # EmptyCart) =>
        LET cart == last.args.cart
            extended == calculateTotalWithExtras(JsObject(cart), JsNull, "free")
            exact == RoundHalfUp(110 * extended.subtotal, 100)
            basicTie == \/ extended.subtotal \in totalBelowTie
                        \/ quantitiesOf(cart) \in totalBelowTieCarts
            extendedTie == <<extended.subtotal, 0>> \in taxBelowTie
        IN  /\ last.out.ret = exact - (IF basicTie THEN 1 ELSE 0)
            /\ extended.total = exact - (IF extendedTie THEN 1 ELSE 0)
            /\ (DOMAIN cart = {1, 2} /\ cart[1].quantity = 1 /\ cart[2].quantity = 1) =>
                   (last.out.ret = 3078 /\ extended.total = 3078)

----------------------------------------------------------------------------
(* C33 *)

\* a >= b as JavaScript compares numbers: false when either is NaN or undefined
JsGeq(a, b) == a \notin {NaN, undefined} /\ b \notin {NaN, undefined} /\ a >= b

\* the breakdown b lies within the bounds of C33
WithinBounds(b) ==
    /\ JsGeq(b.discount, 0) /\ JsGeq(b.subtotal, b.discount)
    /\ JsGeq(b.tax, 0)
    /\ JsGeq(b.shipping, 0) /\ JsGeq(b.total, b.shipping)

\* C33: for every cart of catalog items and every coupon of the coupon table
\* the breakdown of calculateTotalWithExtras has 0 <= discount <= subtotal,
\* tax >= 0 and total >= shipping >= 0, and no completePurchaseWithExtras
\* fails with "Invalid cart total"
C33_BreakdownWithinBounds ==
    /\ (last.op = "calculateTotalWithExtras" /\ last.args.cart.t = "object") =>
           WithinBounds(last.out.ret)
    /\ (last.op = "completePurchaseWithExtras" /\ ~last.out.ret.success) =>
           last.out.ret.error # <<"Invalid cart total">>

\* C33 for the shipping methods that are keys of the shipping table or fall
\* back to "standard"
C33_WithinBoundsForTableShipping ==
    (/\ last.op = "calculateTotalWithExtras" /\ last.args.cart.t = "object"
     /\ last.args.shippingMethod \notin DOMAIN ObjectPrototype) =>
        WithinBounds(last.out.ret)

\* C33 in the purchases made, basic or extended: none fails with "Invalid
\* cart total"
C33_InvalidTotalUnreachable ==
    PurchaseFailed =>
        last.out.ret.error # <<"Invalid cart total">>

----------------------------------------------------------------------------
(* C34 *)

\* the ids of the books searchBooks(query) returns
Hits(query) == {searchBooks(query)[i] : i \in 1..Len(searchBooks(query))}

\* orders of a book the search returns or of another one: "ORWELL" returns
\* book 3 (out of stock), "the" books 1 and 5, "zzz" nothing; book 7 is not
\* in the catalog
SearchOrderArgs ==
    {<<s, b, q, m, d>> :
        s \in {JsStr(<<"O","R","W","E","L","L">>), JsStr(<<"t","h","e">>), JsStr(<<"z","z","z">>)},
        b \in {1, 3, 6, 7}, q \in {1, MaxQty}, m \in MethodArgs, d \in DrawArgs}

\* the outcome r of order a is that of its cart, payment and commit steps
\* alone once the search returned anything, whatever books it returned
GatesOnNonEmpty(a, r, total) ==
    LET added == addToCart(EmptyCart, stock, a[2], a[3])
        payment == processPayment(total, a[4], a[5][1], a[5][2], now)
    IN  /\ Hits(a[1]) = {} =>
              /\ ~r.result.success
              /\ r.result.error = <<"No books found matching your search">>
        /\ Hits(a[1]) # {} =>
              (r.result.success <=>
                  (~added.out.threw /\ ~payment.threw /\ payment.ret.success))
        /\ r.result.success => r.stock = [stock EXCEPT ![a[2]] = @ - a[3]]
        /\ ~r.result.success => r.stock = stock

\* C34: the search step of a purchase gates only on the result being
\* non-empty: completePurchase and completePurchaseWithExtras succeed and
\* decrement the stock of bookId exactly when the cart, payment and commit
\* steps do, also when bookId is not among the books searchBooks(query)
\* returned
C34_SearchGatesOnNonEmpty ==
    /\ \A a \in SearchOrderArgs :
          \E r \in {completePurchase(shoppingCart, stock, emailLog, a[1], a[2], a[3], a[4],
                                     a[5][1], a[5][2], now)} :
              GatesOnNonEmpty(a, r, calculateTotal(SingleLine(stock, a[2], a[3])))
    /\ \A a \in SearchOrderArgs :
          \E r \in {ExtrasCall(<<a, NoOptions>>, shoppingCart, stock, emailLog, now)} :
              GatesOnNonEmpty(a, r,
                  calculateTotalWithExtras(JsObject(SingleLine(stock, a[2], a[3])),
                                           JsNull, "standard").total)
    /\ (PurchaseSucceeded /\ last.op = "completePurchase") =>
          \E id \in DOMAIN last.out.ret.items :
              stock[id] = last.pre.stock[id] - last.out.ret.items[id].quantity

\* a completePurchase succeeded and took copies of a book that no query
\* callers pass returns
C34_Witness ==
    /\ PurchaseSucceeded /\ last.op = "completePurchase"
    /\ \E id \in DOMAIN last.out.ret.items :
          /\ stock[id] < last.pre.stock[id]
          /\ \A s \in QueryArgs : id \notin Hits(s)

----------------------------------------------------------------------------
(* C35 *)

\* a completePurchaseWithExtras succeeded and its confirmation was recorded
ConfirmationRecorded ==
    /\ last.op = "completePurchaseWithExtras" /\ last.out.ret.success
    /\ last.out.ret.emailSent
    /\ Len(emailLog) = Len(last.pre.log) + 1

\* C35: in a successful completePurchaseWithExtras with a valid customerEmail
\* the confirmation recorded in the email log carries the orderId and the
\* transactionId of the returned result, however the clock behaves
C35_ConfirmationDescribesOrder ==
    ConfirmationRecorded =>
        LET record == emailLog[Len(emailLog)]
        IN  /\ record.id = last.out.ret.emailId
            /\ record.orderDetails.orderId = last.out.ret.orderId
            /\ record.orderDetails.transactionId = last.out.ret.transactionId

\* C35 with the order id of the record read from the clock no later than the
\* returned one, and so equal to it only when the clock did not move between
\* the two readings
C35_SameOrderButForClock ==
    ConfirmationRecorded =>
        LET record == emailLog[Len(emailLog)]
        IN  /\ record.id = last.out.ret.emailId
            /\ record.orderDetails.transactionId = last.out.ret.transactionId
            /\ record.orderDetails.items = last.out.ret.items
            /\ record.orderDetails.pricing = last.out.ret.pricing
            /\ last.out.ret.orderId[1] = "ORD" /\ record.orderDetails.orderId[1] = "ORD"
            /\ record.orderDetails.orderId[2] = record.timestamp
            /\ record.orderDetails.orderId[2] <= last.out.ret.orderId[2]
            /\ last.out.ret.orderId[2] <= now

====
